---- MODULE Spec2Model ----
(***************************************************************************)
(* The request-routing core of internal/loadbalancer: the backend registry *)
(* and dispatcher (LoadBalancer), the selection algorithms, the per-backend *)
(* circuit breaker (CircuitBreaker), the consistent-hash ring              *)
(* (ConsistentHash) and the background health checker.                     *)
(*                                                                         *)
(* Spec      the whole balancer: concurrent ServeHTTP calls, AddBackend,   *)
(*           RemoveBackend, health-check probes and the passing of time.   *)
(* SpecCB    one circuit breaker made by NewCircuitBreaker, driven by any  *)
(*           sequence of CanRequest / RecordSuccess / RecordFailure calls. *)
(* SpecCBAny the breaker's methods applied to a receiver whose fields are  *)
(*           drawn from bounded sets (the methods as transition functions).*)
(* SpecRing  the hash ring on its own, under any hash of the node keys.    *)
(* SpecScan  least_connections with its scan taken apart, two callers.     *)
(* SpecSelect calls made one after another over a fixed registry whose     *)
(*           weights and connection counts are drawn from bounded sets.    *)
(***************************************************************************)
EXTENDS Integers, Sequences, FiniteSets, TLC

(***************************************************************************)
(* Bounds of the model.                                                    *)
(***************************************************************************)
NumDispatchers == 2
\* concurrent ServeHTTP calls
MaxBackends == 2
\* backend objects ever created by AddBackend
MaxWeight == 1
\* weights are drawn from 0..MaxWeight
MaxRequests == 2
\* cap on stats.TotalRequests
MaxDuration == 1
\* measured request durations are drawn from 0..MaxDuration
HashSize == 4
\* the 32-bit hash space, folded to 0..HashSize-1
VirtualNodes == 2
\* NewConsistentHash(150) in the code
MaxProbes == 2
\* health probes ever started
MaxThreshold == 3
\* SpecCB draws the breaker's thresholds from 1..MaxThreshold
MaxTimeout == 2
\* SpecCB draws the breaker's timeout, in clock ticks, from 1..MaxTimeout
MaxCount == 4
\* SpecSelect draws the backends' weights from 0..MaxSelectWeight
MaxSelectWeight == 2
\* SpecSelect draws the backends' connection counts from 0..MaxSelectConns
MaxSelectConns == 2
\* the number of ServeHTTP calls SpecSelect makes, one after another
MaxCalls == 4
\* SpecProbe draws the breakers' failure threshold from 1..MaxProbeThreshold
MaxProbeThreshold == 2
\* the number of ServeHTTP calls SpecLock makes
MaxLockCalls == 1
\* the backends AddBackend creates in SpecOrder
MaxOrderBackends == 1
\* the assignments the holder of a GetBackends result makes through it
MaxWrites == 1
\* the distinct non-empty address strings a request can carry
MaxAddresses == 2
\* the values one header field of a request can have
MaxHeaderValues == 2
\* cap on the breaker's counters in SpecCB / SpecCBAny

Dispatchers == 1..NumDispatchers
BackendIds == 1..MaxBackends
Nil == 0
HashSpace == 0..(HashSize - 1)
VNodes == 0..(VirtualNodes - 1)
Weights == 0..MaxWeight
Durations == 0..MaxDuration

AlgorithmRoundRobin == "round_robin"
AlgorithmWeightedRR == "weighted_round_robin"
AlgorithmLeastConn == "least_connections"
AlgorithmWeightedLC == "weighted_least_connections"
AlgorithmIPHash == "ip_hash"
AlgorithmConsistentHash == "consistent_hash"
AlgorithmRandom == "random"
AlgorithmWeightedRandom == "weighted_random"
AlgorithmLeastTime == "least_time"
Algorithms ==
    { AlgorithmRoundRobin, AlgorithmWeightedRR, AlgorithmLeastConn,
      AlgorithmWeightedLC, AlgorithmIPHash, AlgorithmConsistentHash,
      AlgorithmRandom, AlgorithmWeightedRandom, AlgorithmLeastTime }

CircuitStateClosed == "closed"
CircuitStateOpen == "open"
CircuitStateHalfOpen == "half_open"
CircuitStates == { CircuitStateClosed, CircuitStateOpen, CircuitStateHalfOpen }

VARIABLES
    config,     \* LoadBalancerConfig: [algorithm, cbEnabled, failureThreshold,
                \* successThreshold, timeout, halfOpenRequests]
    backends,   \* lb.backends: the registry list, a sequence of backend objects
    backend,    \* the Backend objects' fields, by object
    cb,         \* each object's CircuitBreaker (NoBreaker when nil)
    ring,       \* lb.consistentHash: [hashRing, sortedHashes]
    hashOf,     \* the ring hash of each object's virtual-node keys "{ID}:{i}"
    pendingAdd, \* AddBackend calls between the list append and the ring insert
    stats,      \* lb.stats
    disp,       \* the ServeHTTP calls: position and locals
    health,     \* the health checker: [done, probes, cancelled, loop]
    hist,       \* per breaker, the calls recorded so far (history)
    lastCan,    \* result of the latest direct CanRequest call (SpecCB)
    inRing,     \* the objects added to the ring and not removed since (history,
                \* kept by SpecRing)
    picks,      \* the selections made, in call order, as [key, backend]: key is
                \* the hash looked up (SpecRing, SpecIPHash) or the request
                \* counter at the selection (SpecSelect); SpecIPHash adds
                \* among, the eligible list of the call; history
    intSize,    \* the width of int in the build (strconv.IntSize)
    probeFails, \* per object, the failed probes in a row since it was healthy
                \* with a Closed breaker (history, kept by SpecProbe)
    mutex,      \* the sync.RWMutex objects, by lock: [readers, writer, waiting]
                \* (the goroutines holding it for reading, holding it for
                \* writing, blocked in Lock); kept by SpecLock
    task,       \* the goroutines other than ServeHTTP calls, at the grain of
                \* their lock operations: [prober, checker, reg, reader]; kept
                \* by SpecLock and SpecOrder
    ret,        \* the latest AddBackend / RemoveBackend call, the ID it was
                \* given and the error it returned, as [op, arg, err] (kept
                \* by SpecRegistry)
    got         \* the slice a GetBackends call returned, as [list, writes]:
                \* list holds the pointers, writes counts the assignments
                \* its holder has made through them (kept by SpecSnapshot)

vars == << config, backends, backend, cb, ring, hashOf, pendingAdd, stats,
           disp, health, hist, lastCan, inRing, picks, intSize, probeFails,
           ret, mutex, task, got >>

\* the history variables and the build's parameter, which the operations of
\* the balancer never touch
aux == << inRing, picks, intSize, probeFails, ret, mutex, task, got >>

\* Time is kept as ages.  A breaker's lastFailure is held as the time elapsed
\* since it, time.Since(cb.lastFailure), in clock ticks and saturating at
\* Expired: all that CanRequest reads of it is whether it exceeds Timeout.
\* The zero time.Time of a breaker that never failed is Expired.
Expired == config.timeout + 1

Min(a, b) == IF a < b THEN a ELSE b

(***************************************************************************)
(* CircuitBreaker                                                          *)
(***************************************************************************)
NoBreaker ==
    [state |-> "nil", failureCount |-> 0, successCount |-> 0, sinceFailure |-> 0]

NewCircuitBreaker ==
    [state |-> CircuitStateClosed, failureCount |-> 0, successCount |-> 0,
     sinceFailure |-> Expired]

CanRequest_OffByOne(c) ==
    CASE c.state = CircuitStateClosed -> TRUE
      [] c.state = CircuitStateOpen -> c.sinceFailure >= config.timeout
      [] c.state = CircuitStateHalfOpen -> c.successCount < config.halfOpenRequests
      [] OTHER -> FALSE

CanRequest(c) ==
    CASE c.state = CircuitStateClosed -> TRUE
      [] c.state = CircuitStateOpen -> c.sinceFailure > config.timeout
      [] c.state = CircuitStateHalfOpen -> c.successCount < config.halfOpenRequests
      [] OTHER -> FALSE

RecordSuccess_KeepsFailures(c) ==
    LET n == c.successCount + 1 IN
    CASE c.state = CircuitStateHalfOpen ->
            IF n >= config.successThreshold
            THEN [c EXCEPT !.state = CircuitStateClosed, !.successCount = 0]
            ELSE [c EXCEPT !.successCount = n]
      [] c.state = CircuitStateClosed ->
            [c EXCEPT !.successCount = n, !.failureCount = 0]
      [] OTHER -> [c EXCEPT !.successCount = n]

RecordSuccess_NoForgiveness(c) ==
    LET n == c.successCount + 1 IN
    CASE c.state = CircuitStateHalfOpen ->
            IF n >= config.successThreshold
            THEN [c EXCEPT !.state = CircuitStateClosed,
                           !.failureCount = 0, !.successCount = 0]
            ELSE [c EXCEPT !.successCount = n]
      [] OTHER -> [c EXCEPT !.successCount = n]

RecordSuccess_Recovers(c) ==
    LET n == c.successCount + 1 IN
    CASE c.state = CircuitStateHalfOpen ->
            IF n >= config.successThreshold
            THEN [c EXCEPT !.state = CircuitStateClosed,
                           !.failureCount = 0, !.successCount = 0]
            ELSE [c EXCEPT !.successCount = n]
      [] c.state = CircuitStateClosed ->
            [c EXCEPT !.successCount = n, !.failureCount = 0]
      [] c.state = CircuitStateOpen /\ c.sinceFailure > config.timeout ->
            [c EXCEPT !.state = CircuitStateHalfOpen, !.successCount = n]
      [] OTHER -> [c EXCEPT !.successCount = n]

RecordSuccess(c) ==
    LET n == c.successCount + 1 IN
    CASE c.state = CircuitStateHalfOpen ->
            IF n >= config.successThreshold
            THEN [c EXCEPT !.state = CircuitStateClosed,
                           !.failureCount = 0, !.successCount = 0]
            ELSE [c EXCEPT !.successCount = n]
      [] c.state = CircuitStateClosed ->
            [c EXCEPT !.successCount = n, !.failureCount = 0]
      [] OTHER -> [c EXCEPT !.successCount = n]

RecordFailure_LateOpen(c) ==
    LET n == c.failureCount + 1 IN
    CASE c.state = CircuitStateClosed ->
            IF n > config.failureThreshold
            THEN [c EXCEPT !.state = CircuitStateOpen, !.failureCount = n,
                           !.successCount = 0, !.sinceFailure = 0]
            ELSE [c EXCEPT !.failureCount = n, !.sinceFailure = 0]
      [] c.state = CircuitStateHalfOpen ->
            [c EXCEPT !.state = CircuitStateOpen, !.failureCount = n,
                      !.successCount = 0, !.sinceFailure = 0]
      [] OTHER -> [c EXCEPT !.failureCount = n, !.sinceFailure = 0]

RecordFailure_KeepsSuccesses(c) ==
    LET n == c.failureCount + 1 IN
    CASE c.state = CircuitStateClosed ->
            IF n >= config.failureThreshold
            THEN [c EXCEPT !.state = CircuitStateOpen, !.failureCount = n,
                           !.sinceFailure = 0]
            ELSE [c EXCEPT !.failureCount = n, !.sinceFailure = 0]
      [] c.state = CircuitStateHalfOpen ->
            [c EXCEPT !.state = CircuitStateOpen, !.failureCount = n,
                      !.sinceFailure = 0]
      [] OTHER -> [c EXCEPT !.failureCount = n, !.sinceFailure = 0]

RecordFailure(c) ==
    LET n == c.failureCount + 1 IN
    CASE c.state = CircuitStateClosed ->
            IF n >= config.failureThreshold
            THEN [c EXCEPT !.state = CircuitStateOpen, !.failureCount = n,
                           !.successCount = 0, !.sinceFailure = 0]
            ELSE [c EXCEPT !.failureCount = n, !.sinceFailure = 0]
      [] c.state = CircuitStateHalfOpen ->
            [c EXCEPT !.state = CircuitStateOpen, !.failureCount = n,
                      !.successCount = 0, !.sinceFailure = 0]
      [] OTHER -> [c EXCEPT !.failureCount = n, !.sinceFailure = 0]

\* History of a breaker's calls: fails = RecordFailure calls since the last
\* RecordSuccess; probes = RecordSuccess calls since the last RecordFailure
\* that were made after the timeout had elapsed on a breaker that was Open
\* or HalfOpen.  Both saturate at the thresholds.  failures = all the
\* RecordFailure calls, saturating at MaxCount.
NoHist == [fails |-> 0, probes |-> 0, failures |-> 0]

HistSuccess(h, c) ==
    [fails |-> 0, failures |-> h.failures,
     probes |-> IF c.state # CircuitStateClosed
                   /\ c.sinceFailure > config.timeout
                THEN Min(h.probes + 1, config.successThreshold)
                ELSE h.probes]

HistFailure(h) ==
    [fails |-> Min(h.fails + 1, config.failureThreshold), probes |-> 0,
     failures |-> Min(h.failures + 1, MaxCount)]

\* cb.RecordSuccess() / cb.RecordFailure() on object b, by whoever calls it.
CallRecordSuccess(b) == cb' = [cb EXCEPT ![b] = RecordSuccess(@)]

CallRecordFailure(b) == cb' = [cb EXCEPT ![b] = RecordFailure(@)]

(***************************************************************************)
(* ConsistentHash                                                          *)
(***************************************************************************)
NewConsistentHash == [hashRing |-> [h \in HashSpace |-> Nil], sortedHashes |-> <<>>]

RECURSIVE InsertSorted(_, _)
InsertSorted(s, x) ==
    IF s = <<>> THEN << x >>
    ELSE IF x < Head(s) THEN << x >> \o s
    ELSE << Head(s) >> \o InsertSorted(Tail(s), x)

\* sort.Slice(ch.sortedHashes, less) on integers
RECURSIVE SortSlice(_)
SortSlice(s) == IF s = <<>> THEN <<>> ELSE InsertSorted(SortSlice(Tail(s)), Head(s))

RECURSIVE RingAddLoop(_, _, _)
RingAddLoop(r, b, i) ==
    IF i >= VirtualNodes THEN r
    ELSE RingAddLoop([hashRing |-> [r.hashRing EXCEPT ![hashOf[b][i]] = b],
                      sortedHashes |-> Append(r.sortedHashes, hashOf[b][i])],
                     b, i + 1)

RingAddBackend(r, b) ==
    LET x == RingAddLoop(r, b, 0) IN [x EXCEPT !.sortedHashes = SortSlice(@)]

\* the inner loop of RemoveBackend: drop the first entry equal to h
RECURSIVE RemoveFirst(_, _)
RemoveFirst(s, h) ==
    IF s = <<>> THEN <<>>
    ELSE IF Head(s) = h THEN Tail(s)
    ELSE << Head(s) >> \o RemoveFirst(Tail(s), h)

RECURSIVE RingRemoveLoop(_, _, _)
RingRemoveLoop(r, b, i) ==
    IF i >= VirtualNodes THEN r
    ELSE RingRemoveLoop([hashRing |-> [r.hashRing EXCEPT ![hashOf[b][i]] = Nil],
                         sortedHashes |-> RemoveFirst(r.sortedHashes, hashOf[b][i])],
                        b, i + 1)

RingRemoveBackend(r, b) == RingRemoveLoop(r, b, 0)

\* sort.Search(n, func(i) { return s[i] >= h }): binary search on [lo, hi)
RECURSIVE SortSearch(_, _, _, _)
SortSearch(s, h, lo, hi) ==
    IF lo >= hi THEN lo
    ELSE LET mid == (lo + hi) \div 2 IN
         IF s[mid + 1] >= h THEN SortSearch(s, h, lo, mid)
         ELSE SortSearch(s, h, mid + 1, hi)

RingGetBackend_NoWrap(r, h) ==
    IF Len(r.sortedHashes) = 0 THEN Nil
    ELSE LET n == Len(r.sortedHashes)
             found == SortSearch(r.sortedHashes, h, 0, n)
             idx == IF found = n THEN n - 1 ELSE found
         IN r.hashRing[r.sortedHashes[idx + 1]]

RingGetBackend(r, h) ==
    IF Len(r.sortedHashes) = 0 THEN Nil
    ELSE LET n == Len(r.sortedHashes)
             found == SortSearch(r.sortedHashes, h, 0, n)
             idx == IF found = n THEN 0 ELSE found
         IN r.hashRing[r.sortedHashes[idx + 1]]

(***************************************************************************)
(* The selection algorithms.  E is healthyBackends, a non-empty sequence   *)
(* of objects; key is the hash of the client address, draw the value       *)
(* rand.Intn returned.                                                     *)
(***************************************************************************)
RECURSIVE SumWeights(_)
SumWeights(E) == IF E = <<>> THEN 0 ELSE backend[Head(E)].Weight + SumWeights(Tail(E))

roundRobin_First(E) == IF Len(E) = 0 THEN Nil ELSE E[1]

roundRobin(E) ==
    IF Len(E) = 0 THEN Nil ELSE E[(stats.TotalRequests % Len(E)) + 1]

RECURSIVE WeightWalk_Inclusive(_, _, _)
WeightWalk_Inclusive(E, draw, currentWeight) ==
    IF E = <<>> THEN Nil
    ELSE IF draw <= currentWeight + backend[Head(E)].Weight THEN Head(E)
    ELSE WeightWalk_Inclusive(Tail(E), draw, currentWeight + backend[Head(E)].Weight)

RECURSIVE WeightWalk(_, _, _)
WeightWalk(E, draw, currentWeight) ==
    IF E = <<>> THEN Nil
    ELSE IF draw < currentWeight + backend[Head(E)].Weight THEN Head(E)
    ELSE WeightWalk(Tail(E), draw, currentWeight + backend[Head(E)].Weight)

weightedRoundRobin(E, draw) ==
    IF Len(E) = 0 THEN Nil
    ELSE IF SumWeights(E) = 0 THEN E[1]
    ELSE LET w == WeightWalk(E, draw, 0) IN IF w = Nil THEN E[1] ELSE w

RECURSIVE LeastConnLoop(_, _, _)
LeastConnLoop(rest, minConnections, selected) ==
    IF rest = <<>> THEN selected
    ELSE IF backend[Head(rest)].Connections < minConnections
    THEN LeastConnLoop(Tail(rest), backend[Head(rest)].Connections, Head(rest))
    ELSE LeastConnLoop(Tail(rest), minConnections, selected)

leastConnections(E) ==
    IF Len(E) = 0 THEN Nil
    ELSE LeastConnLoop(Tail(E), backend[E[1]].Connections, E[1])

\* float64(connections) / float64(weight): x/0 is +Inf for x > 0 and NaN for
\* x = 0; a comparison with NaN is false.
Ratio(b) ==
    IF backend[b].Weight # 0
    THEN [kind |-> "num", n |-> backend[b].Connections, d |-> backend[b].Weight]
    ELSE IF backend[b].Connections > 0 THEN [kind |-> "inf", n |-> 1, d |-> 0]
    ELSE [kind |-> "nan", n |-> 0, d |-> 0]

RatioLess(x, y) ==
    CASE x.kind = "nan" \/ y.kind = "nan" -> FALSE
      [] x.kind = "inf" -> FALSE
      [] y.kind = "inf" -> TRUE
      [] OTHER -> x.n * y.d < y.n * x.d

RECURSIVE WeightedLCLoop(_, _, _)
WeightedLCLoop(rest, minRatio, selected) ==
    IF rest = <<>> THEN selected
    ELSE IF backend[Head(rest)].Weight = 0
    THEN WeightedLCLoop(Tail(rest), minRatio, selected)
    ELSE IF RatioLess(Ratio(Head(rest)), minRatio)
    THEN WeightedLCLoop(Tail(rest), Ratio(Head(rest)), Head(rest))
    ELSE WeightedLCLoop(Tail(rest), minRatio, selected)

weightedLeastConnections(E) ==
    IF Len(E) = 0 THEN Nil ELSE WeightedLCLoop(Tail(E), Ratio(E[1]), E[1])

\* int(hash.Sum32()): a build whose int has 32 bits reads the upper half of
\* the hash space as negative numbers, a build with 64 bits reads the value
GoInt(h) == IF intSize = 32 /\ h >= HashSize \div 2 THEN h - HashSize ELSE h

\* Go's %: the remainder has the sign of the dividend
Rem(a, n) == IF a >= 0 THEN a % n ELSE 0 - ((0 - a) % n)

\* what a call yields whose index expression is out of range: a run-time
\* panic, no backend
Panicked == 0 - 1

ipHash(E, key) ==
    IF Len(E) = 0 THEN Nil
    ELSE LET index == Rem(GoInt(key), Len(E)) IN
         IF index \in 0..(Len(E) - 1) THEN E[index + 1] ELSE Panicked

consistentHashSelect(E, key) ==
    IF config.algorithm # AlgorithmConsistentHash THEN Nil
    ELSE RingGetBackend(ring, key)

random(E, draw) == IF Len(E) = 0 THEN Nil ELSE E[draw + 1]

weightedRandom(E, draw) == weightedRoundRobin(E, draw)

RECURSIVE LeastTimeLoop(_, _, _)
LeastTimeLoop(rest, minTime, selected) ==
    IF rest = <<>> THEN selected
    ELSE IF backend[Head(rest)].ResponseTime < minTime
    THEN LeastTimeLoop(Tail(rest), backend[Head(rest)].ResponseTime, Head(rest))
    ELSE LeastTimeLoop(Tail(rest), minTime, selected)

leastTime(E) ==
    IF Len(E) = 0 THEN Nil
    ELSE LeastTimeLoop(Tail(E), backend[E[1]].ResponseTime, E[1])

\* the values rand.Intn can return, and the client hashes, for the algorithm
DrawRange(E) ==
    CASE config.algorithm \in { AlgorithmWeightedRR, AlgorithmWeightedRandom } ->
            IF SumWeights(E) = 0 THEN { 0 } ELSE 0..(SumWeights(E) - 1)
      [] config.algorithm = AlgorithmRandom -> 0..(Len(E) - 1)
      [] OTHER -> { 0 }

KeyRange ==
    IF config.algorithm \in { AlgorithmIPHash, AlgorithmConsistentHash }
    THEN HashSpace ELSE { 0 }

\* the switch of GetBackend
SelectBackend(E, key, draw) ==
    CASE config.algorithm = AlgorithmRoundRobin -> roundRobin(E)
      [] config.algorithm = AlgorithmWeightedRR -> weightedRoundRobin(E, draw)
      [] config.algorithm = AlgorithmLeastConn -> leastConnections(E)
      [] config.algorithm = AlgorithmWeightedLC -> weightedLeastConnections(E)
      [] config.algorithm = AlgorithmIPHash -> ipHash(E, key)
      [] config.algorithm = AlgorithmConsistentHash -> consistentHashSelect(E, key)
      [] config.algorithm = AlgorithmRandom -> random(E, draw)
      [] config.algorithm = AlgorithmWeightedRandom -> weightedRandom(E, draw)
      [] config.algorithm = AlgorithmLeastTime -> leastTime(E)
      [] OTHER -> roundRobin(E)

(***************************************************************************)
(* State after NewLoadBalancer                                             *)
(***************************************************************************)
NoBackend ==
    [ID |-> Nil, Weight |-> 0, Healthy |-> FALSE, Connections |-> 0,
     ResponseTime |-> 0, ErrorCount |-> 0, SuccessCount |-> 0]

IdleCall == [pc |-> "idle", backend |-> Nil, resp |-> "none"]

NewStats ==
    [TotalRequests |-> 0, SuccessRequests |-> 0, FailedRequests |-> 0,
     ActiveConnections |-> 0]

\* The ring hash of "{ID}:{i}" is a value of the 32-bit space fixed by the
\* object's ID (an md5 of URL and registration time): an input.  Spec runs
\* the table that spreads the objects' virtual nodes over the space.
SpreadTable ==
    [b \in BackendIds |-> [i \in VNodes |-> (b - 1 + MaxBackends * i) % HashSize]]

\* Registration inputs: the weight is read by the weighted algorithms only;
\* under the others every backend is registered with the default weight 1.
WeightInputs ==
    IF config.algorithm \in { AlgorithmWeightedRR, AlgorithmWeightedLC,
                              AlgorithmWeightedRandom }
    THEN Weights ELSE { 1 }

\* What time.Since(start) measured is an input too; it is stored in
\* ResponseTime, which only least_time reads: under the others it is 0.
DurationInputs ==
    IF config.algorithm = AlgorithmLeastTime THEN Durations ELSE { 0 }

\* the health checker as NewLoadBalancer starts it: lb.ctx not cancelled,
\* startHealthCheck in its loop, no probe started
NewHealth ==
    [done |-> 0, probes |-> [b \in BackendIds |-> 0], cancelled |-> FALSE,
     loop |-> "running"]

\* The goroutines and the locks they take.
Probers == 1..MaxProbes
Caller(d) == << "ServeHTTP", d >>
Prober(p) == << "checkBackendHealth", p >>
Checker == << "performHealthCheck", 0 >>
Registrar == << "registry", 0 >>
Reader == << "reader", 0 >>

LbMutex == << "lb.mutex", 0 >>
ChMutex == << "ch.mutex", 0 >>
StatsMutex == << "lb.statsMutex", 0 >>
BackendMutex(b) == << "backend.mutex", b >>
CbMutex(b) == << "cb.mutex", b >>
Locks ==
    { LbMutex, ChMutex, StatsMutex } \cup { BackendMutex(b) : b \in BackendIds }
        \cup { CbMutex(b) : b \in BackendIds }

Unlocked == [readers |-> {}, writer |-> {}, waiting |-> {}]

NoTasks ==
    [prober |-> [p \in Probers |-> [pc |-> "none", b |-> Nil, ok |-> FALSE]],
     checker |-> "idle",
     reg |-> [pc |-> "idle", arg |-> Nil],
     reader |-> "idle"]

NoResult == [list |-> << Nil >>, writes |-> 0]

NoCall == [op |-> "none", arg |-> Nil, err |-> "none"]

\* The repository is built for targets whose int has 64 bits (amd64, arm64)
\* and for 386, whose int has 32.  The width is read by ip_hash only: under
\* the other algorithms it is 64.
IntSizes == IF config.algorithm = AlgorithmIPHash THEN { 32, 64 } ELSE { 64 }

Created == { b \in BackendIds : backend[b].ID # Nil }

InitCommon ==
    /\ backends = <<>>
    /\ backend = [b \in BackendIds |-> NoBackend]
    /\ ring = NewConsistentHash
    /\ pendingAdd = {}
    /\ stats = NewStats
    /\ disp = [d \in Dispatchers |-> IdleCall]
    /\ health = NewHealth
    /\ hist = NoHist
    /\ lastCan = "none"
    /\ inRing = {}
    /\ picks = <<>>
    /\ intSize \in IntSizes
    /\ probeFails = [b \in BackendIds |-> 0]
    /\ ret = NoCall
    /\ mutex = [l \in Locks |-> Unlocked]
    /\ task = NoTasks
    /\ got = NoResult

\* The configurations of Spec: every algorithm, circuit breaking on or off,
\* the breaker's settings at their smallest.
Configs ==
    [algorithm : Algorithms, cbEnabled : BOOLEAN, failureThreshold : { 1 },
     successThreshold : { 1 }, timeout : { 1 }, halfOpenRequests : { 1 }]

Init ==
    /\ config \in Configs
    /\ hashOf = SpreadTable
    /\ cb = [b \in BackendIds |-> NoBreaker]
    /\ InitCommon

(***************************************************************************)
(* Registry                                                                *)
(***************************************************************************)
Listed(id) == \E i \in 1..Len(backends) : backends[i] = id

RemoveAt(s, i) == SubSeq(s, 1, i - 1) \o SubSeq(s, i + 1, Len(s))

\* AddBackend up to lb.mutex.Unlock(): the object is built and appended
AddBackend(w) ==
    /\ Cardinality(Created) < MaxBackends
    /\ LET b == Cardinality(Created) + 1 IN
        /\ backend' = [backend EXCEPT ![b] =
                          [NoBackend EXCEPT !.ID = b, !.Weight = w, !.Healthy = TRUE]]
        /\ cb' = [cb EXCEPT ![b] =
                     IF config.cbEnabled THEN NewCircuitBreaker ELSE NoBreaker]
        /\ backends' = Append(backends, b)
        /\ pendingAdd' = IF config.algorithm = AlgorithmConsistentHash
                         THEN pendingAdd \cup { b } ELSE pendingAdd
    /\ UNCHANGED << config, ring, hashOf, stats, disp, health, hist, lastCan >>

\* the rest of AddBackend: lb.consistentHash.AddBackend(backend)
AddBackendRing(b) ==
    /\ b \in pendingAdd
    /\ ring' = RingAddBackend(ring, b)
    /\ pendingAdd' = pendingAdd \ { b }
    /\ UNCHANGED << config, backends, backend, cb, hashOf, stats, disp,
                    health, hist, lastCan >>

\* RemoveBackend of a registered ID, whole under lb.mutex.Lock()
RemoveBackend(b) ==
    /\ \E i \in 1..Len(backends) :
        /\ backends[i] = b
        /\ \A j \in 1..(i - 1) : backends[j] # b
        /\ ring' = IF config.algorithm = AlgorithmConsistentHash
                   THEN RingRemoveBackend(ring, b) ELSE ring
        /\ backends' = RemoveAt(backends, i)
    /\ UNCHANGED << config, backend, cb, hashOf, pendingAdd, stats, disp,
                    health, hist, lastCan >>

(***************************************************************************)
(* ServeHTTP                                                               *)
(***************************************************************************)
Eligible_HealthOnly(b) == backend[b].Healthy

Eligible(b) ==
    backend[b].Healthy /\ (cb[b].state = "nil" \/ CanRequest(cb[b]))

RECURSIVE FilterHealthy(_)
FilterHealthy(s) ==
    IF s = <<>> THEN <<>>
    ELSE IF Eligible(Head(s)) THEN << Head(s) >> \o FilterHealthy(Tail(s))
    ELSE FilterHealthy(Tail(s))

\* lines 318-323: count the request
BeginCall(d) ==
    /\ disp[d].pc = "idle"
    /\ stats' = [stats EXCEPT !.TotalRequests = @ + 1, !.ActiveConnections = @ + 1]
    /\ disp' = [disp EXCEPT ![d] = [IdleCall EXCEPT !.pc = "select"]]
    /\ UNCHANGED << config, backends, backend, cb, ring, hashOf, pendingAdd, 
                    health, hist, lastCan >>

Begin(d) == stats.TotalRequests < MaxRequests /\ BeginCall(d)

\* lines 326-331, GetBackend under lb.mutex.RLock(), for a request whose
\* client address hashes to key and for the random draw the algorithm makes:
\* the filter loop, the empty check (503 and a failed request), the
\* algorithm's pick; a panic inside the algorithm leaves ServeHTTP through
\* its deferred calls
SelectWith(d, key, draw) ==
    /\ disp[d].pc = "select"
    /\ LET E == FilterHealthy(backends) IN
        IF Len(E) = 0
        THEN /\ disp' = [disp EXCEPT ![d].resp = "503", ![d].pc = "exit"]
             /\ stats' = [stats EXCEPT !.FailedRequests = @ + 1]
        ELSE /\ disp' = IF SelectBackend(E, key, draw) = Panicked
                        THEN [disp EXCEPT ![d].resp = "panic", ![d].pc = "exit"]
                        ELSE [disp EXCEPT ![d].backend = SelectBackend(E, key, draw),
                                          ![d].pc = "connect"]
             /\ UNCHANGED stats
    /\ UNCHANGED << config, backends, backend, cb, ring, hashOf, pendingAdd, 
                    health, hist, lastCan >>

Select(d) ==
    LET E == FilterHealthy(backends) IN
    IF Len(E) = 0 THEN SelectWith(d, 0, 0)
    ELSE \E key \in KeyRange, draw \in DrawRange(E) : SelectWith(d, key, draw)

\* lines 334-335: count the connection; a nil backend panics here and the
\* server recovers the panic after the deferred calls
Connect(d) ==
    /\ disp[d].pc = "connect"
    /\ IF disp[d].backend = Nil
       THEN /\ disp' = [disp EXCEPT ![d].resp = "panic", ![d].pc = "exit"]
            /\ UNCHANGED backend
       ELSE /\ backend' = [backend EXCEPT ![disp[d].backend].Connections = @ + 1]
            /\ disp' = [disp EXCEPT ![d].pc = "proxy"]
    /\ UNCHANGED << config, backends, cb, ring, hashOf, pendingAdd, stats, 
                    health, hist, lastCan >>

\* line 338: backend.Proxy.ServeHTTP returns after a good exchange ("ok"),
\* after its error handler answered 502 ("error"), or panics with
\* ErrAbortHandler when the response copy breaks ("abort")
ProxyOutcomes == { "ok", "error", "abort" }

\* lines 341-353, after the proxied call returned: statistics, response
\* time (duration is what time.Since(start) measured), circuit breaker
Record(b, duration) ==
    /\ stats' = [stats EXCEPT !.SuccessRequests = @ + 1]
    /\ backend' = [backend EXCEPT ![b].SuccessCount = @ + 1,
                                  ![b].ResponseTime = duration]
    /\ IF cb[b].state # "nil"
       THEN CallRecordSuccess(b)
       ELSE UNCHANGED cb

Proxy_Retries(d) ==
    /\ disp[d].pc = "proxy"
    /\ \E o \in ProxyOutcomes :
        /\ disp' = IF o = "error"
                   THEN [disp EXCEPT ![d].pc = "select"]
                   ELSE [disp EXCEPT ![d].resp = o, ![d].pc = "exit"]
        /\ IF o = "abort"
           THEN UNCHANGED << stats, backend, cb >>
           ELSE \E duration \in DurationInputs : Record(disp[d].backend, duration)
    /\ UNCHANGED << config, backends, ring, hashOf, pendingAdd, health, hist,
                    lastCan >>

\* lines 338-353: the proxied call ends and, unless it panicked, is recorded
Proxy(d) ==
    /\ disp[d].pc = "proxy"
    /\ \E o \in ProxyOutcomes :
        /\ disp' = [disp EXCEPT ![d].resp = o, ![d].pc = "exit"]
        /\ IF o = "abort"
           THEN UNCHANGED << stats, backend, cb >>
           ELSE \E duration \in DurationInputs : Record(disp[d].backend, duration)
    /\ UNCHANGED << config, backends, ring, hashOf, pendingAdd, health, hist,
                    lastCan >>

Return_KeepsConnections(d) ==
    /\ disp[d].pc = "exit"
    /\ stats' = [stats EXCEPT !.ActiveConnections = @ - 1]
    /\ disp' = [disp EXCEPT ![d] = IdleCall]
    /\ UNCHANGED << config, backends, backend, cb, ring, hashOf, pendingAdd,
                    health, hist, lastCan >>

\* the deferred calls of lines 323 and 335, then the call is over
Return(d) ==
    /\ disp[d].pc = "exit"
    /\ stats' = [stats EXCEPT !.ActiveConnections = @ - 1]
    /\ backend' = IF disp[d].backend # Nil
                  THEN [backend EXCEPT ![disp[d].backend].Connections = @ - 1]
                  ELSE backend
    /\ disp' = [disp EXCEPT ![d] = IdleCall]
    /\ UNCHANGED << config, backends, cb, ring, hashOf, pendingAdd, health,
                    hist, lastCan >>

(***************************************************************************)
(* Health checker                                                          *)
(***************************************************************************)
\* probes started so far that have not completed
RECURSIVE Pending(_)
Pending(S) ==
    IF S = {} THEN 0
    ELSE LET b == CHOOSE x \in S : TRUE IN health.probes[b] + Pending(S \ { b })

HealthTick_FirstOnly ==
    /\ health.loop = "running"
    /\ Len(backends) > 0
    /\ health.done + Pending(BackendIds) + Len(backends) <= MaxProbes
    /\ health' = [health EXCEPT !.probes[backends[1]] = @ + 1]
    /\ UNCHANGED << config, backends, backend, cb, ring, hashOf, pendingAdd, stats,
                    disp, hist, lastCan >>

\* startHealthCheck's select takes the ticker's case: performHealthCheck
\* starts a probe of every backend of the list
HealthTick ==
    /\ health.loop = "running"
    /\ Len(backends) > 0
    /\ health.done + Pending(BackendIds) + Len(backends) <= MaxProbes
    /\ health' = [health EXCEPT
                    !.probes = [b \in BackendIds |->
                                  IF \E i \in 1..Len(backends) : backends[i] = b
                                  THEN @[b] + 1 ELSE @[b]]]
    /\ UNCHANGED << config, backends, backend, cb, ring, hashOf, pendingAdd, stats,
                    disp, hist, lastCan >>

ProbeDone_SkipsBreaker(b, ok) ==
    /\ health.probes[b] > 0
    /\ health' = [health EXCEPT !.probes[b] = @ - 1, !.done = @ + 1]
    /\ IF ok
       THEN /\ backend' = [backend EXCEPT ![b].Healthy = TRUE, ![b].SuccessCount = @ + 1]
            /\ IF cb[b].state # "nil" THEN CallRecordSuccess(b) ELSE UNCHANGED cb
       ELSE /\ backend' = [backend EXCEPT ![b].Healthy = FALSE, ![b].ErrorCount = @ + 1]
            /\ UNCHANGED cb
    /\ UNCHANGED << config, backends, ring, hashOf, pendingAdd, stats, disp,
                    hist, lastCan >>

\* checkBackendHealth after the GET returned: ok is "status 200, no error"
ProbeDone(b, ok) ==
    /\ health.probes[b] > 0
    /\ health' = [health EXCEPT !.probes[b] = @ - 1, !.done = @ + 1]
    /\ IF ok
       THEN /\ backend' = [backend EXCEPT ![b].Healthy = TRUE, ![b].SuccessCount = @ + 1]
            /\ IF cb[b].state # "nil" THEN CallRecordSuccess(b) ELSE UNCHANGED cb
       ELSE /\ backend' = [backend EXCEPT ![b].Healthy = FALSE, ![b].ErrorCount = @ + 1]
            /\ IF cb[b].state # "nil" THEN CallRecordFailure(b) ELSE UNCHANGED cb
    /\ UNCHANGED << config, backends, ring, hashOf, pendingAdd, stats, disp,
                    hist, lastCan >>

\* Stop(): lb.cancel()
Stop ==
    /\ health' = [health EXCEPT !.cancelled = TRUE]
    /\ UNCHANGED << config, backends, backend, cb, ring, hashOf, pendingAdd, stats,
                    disp, hist, lastCan >>

HealthLoopReturn_Ignores ==
    /\ health.loop = "running"
    /\ health.cancelled
    /\ UNCHANGED << config, backends, backend, cb, ring, hashOf, pendingAdd, stats,
                    disp, health, hist, lastCan >>

\* startHealthCheck's select takes the case of lb.ctx.Done(): return
HealthLoopReturn ==
    /\ health.loop = "running"
    /\ health.cancelled
    /\ health' = [health EXCEPT !.loop = "returned"]
    /\ UNCHANGED << config, backends, backend, cb, ring, hashOf, pendingAdd, stats,
                    disp, hist, lastCan >>

\* the clock advances by one tick: every lastFailure is one tick older
TickAges ==
    /\ \E b \in BackendIds : cb[b].state # "nil" /\ cb[b].sinceFailure < Expired
    /\ cb' = [b \in BackendIds |->
                [cb[b] EXCEPT !.sinceFailure = Min(@ + 1, Expired)]]

Tick ==
    /\ TickAges
    /\ UNCHANGED << config, backends, backend, ring, hashOf, pendingAdd, stats,
                    disp, health, hist, lastCan >>

Next ==
    \/ \E w \in WeightInputs : AddBackend(w) /\ UNCHANGED aux
    \/ \E b \in BackendIds : AddBackendRing(b) /\ UNCHANGED aux
    \/ \E b \in BackendIds : RemoveBackend(b) /\ UNCHANGED aux
    \/ \E d \in Dispatchers : Begin(d) /\ UNCHANGED aux
    \/ \E d \in Dispatchers : Select(d) /\ UNCHANGED aux
    \/ \E d \in Dispatchers : Connect(d) /\ UNCHANGED aux
    \/ \E d \in Dispatchers : Proxy(d) /\ UNCHANGED aux
    \/ \E d \in Dispatchers : Return(d) /\ UNCHANGED aux
    \/ HealthTick /\ UNCHANGED aux
    \/ \E b \in BackendIds, ok \in BOOLEAN : ProbeDone(b, ok) /\ UNCHANGED aux
    \/ Tick /\ UNCHANGED aux

Spec == Init /\ [][Next]_vars

(***************************************************************************)
(* One circuit breaker on its own: the object NewCircuitBreaker returns,   *)
(* held as cb[TheBreaker], and its three methods called in any order.      *)
(***************************************************************************)
TheBreaker == CHOOSE b \in BackendIds : \A x \in BackendIds : b <= x

BreakerConfigs ==
    [algorithm : { AlgorithmRoundRobin }, cbEnabled : { TRUE },
     failureThreshold : 1..MaxThreshold, successThreshold : 1..MaxThreshold,
     timeout : 1..MaxTimeout, halfOpenRequests : 1..MaxThreshold]

InitCB ==
    /\ config \in BreakerConfigs
    /\ hashOf = SpreadTable
    /\ cb = [b \in BackendIds |->
               IF b = TheBreaker THEN NewCircuitBreaker ELSE NoBreaker]
    /\ InitCommon

\* the receiver's fields drawn from bounded sets
InitCBAny ==
    /\ config \in BreakerConfigs
    /\ hashOf = SpreadTable
    /\ \E c \in [state : CircuitStates, failureCount : 0..MaxCount,
                 successCount : 0..MaxCount, sinceFailure : 0..Expired] :
          cb = [b \in BackendIds |-> IF b = TheBreaker THEN c ELSE NoBreaker]
    /\ InitCommon

CBCanRequest ==
    /\ lastCan' = IF CanRequest(cb[TheBreaker]) THEN "true" ELSE "false"
    /\ UNCHANGED << config, backends, backend, cb, ring, hashOf, pendingAdd, stats,
                    disp, health, hist >>

CBRecordSuccess ==
    /\ cb[TheBreaker].successCount < MaxCount
    /\ CallRecordSuccess(TheBreaker)
    /\ hist' = HistSuccess(hist, cb[TheBreaker])
    /\ lastCan' = "none"
    /\ UNCHANGED << config, backends, backend, ring, hashOf, pendingAdd, stats,
                    disp, health >>

CBRecordFailure ==
    /\ cb[TheBreaker].failureCount < MaxCount
    /\ CallRecordFailure(TheBreaker)
    /\ hist' = HistFailure(hist)
    /\ lastCan' = "none"
    /\ UNCHANGED << config, backends, backend, ring, hashOf, pendingAdd, stats,
                    disp, health >>

CBTick ==
    /\ TickAges
    /\ lastCan' = "none"
    /\ UNCHANGED << config, backends, backend, ring, hashOf, pendingAdd, stats,
                    disp, health, hist >>

NextCB ==
    \/ CBCanRequest /\ UNCHANGED aux
    \/ CBRecordSuccess /\ UNCHANGED aux
    \/ CBRecordFailure /\ UNCHANGED aux
    \/ CBTick /\ UNCHANGED aux

SpecCB == InitCB /\ [][NextCB]_vars

SpecCBAny == InitCBAny /\ [][NextCB]_vars

(***************************************************************************)
(* The consistent-hash ring on its own: the object NewConsistentHash       *)
(* returns and its three methods, each object added at most once at a time *)
(* and removed only while it is on the ring, as LoadBalancer calls them    *)
(* one after another.  The hash of a virtual-node key is any value of the  *)
(* space: two keys may hash alike.                                         *)
(***************************************************************************)
HashTables == [BackendIds -> [VNodes -> HashSpace]]

RingConfigs ==
    [algorithm : { AlgorithmConsistentHash }, cbEnabled : { FALSE },
     failureThreshold : { 1 }, successThreshold : { 1 }, timeout : { 1 },
     halfOpenRequests : { 1 }]

InitRing ==
    /\ config \in RingConfigs
    /\ hashOf \in HashTables
    /\ cb = [b \in BackendIds |-> NoBreaker]
    /\ InitCommon

\* ch.AddBackend(b)
CHAddBackend(b) ==
    /\ b \notin inRing
    /\ ring' = RingAddBackend(ring, b)
    /\ inRing' = inRing \cup { b }
    /\ picks' = <<>>
    /\ UNCHANGED << config, backends, backend, cb, hashOf, pendingAdd, stats,
                    disp, health, hist, lastCan, intSize, probeFails, ret,
                    mutex, task, got >>

\* ch.RemoveBackend(b)
CHRemoveBackend(b) ==
    /\ b \in inRing
    /\ ring' = RingRemoveBackend(ring, b)
    /\ inRing' = inRing \ { b }
    /\ picks' = <<>>
    /\ UNCHANGED << config, backends, backend, cb, hashOf, pendingAdd, stats,
                    disp, health, hist, lastCan, intSize, probeFails, ret,
                    mutex, task, got >>

\* ch.GetBackend(key), key being hashed to h
CHGetBackend(h) ==
    /\ picks' = << [key |-> h, backend |-> RingGetBackend(ring, h)] >>
    /\ UNCHANGED << config, backends, backend, cb, ring, hashOf, pendingAdd,
                    stats, disp, health, hist, lastCan, inRing, intSize,
                    probeFails, ret, mutex, task, got >>

NextRing ==
    \/ \E b \in BackendIds : CHAddBackend(b)
    \/ \E b \in BackendIds : CHRemoveBackend(b)
    \/ \E h \in HashSpace : CHGetBackend(h)

SpecRing == InitRing /\ [][NextRing]_vars

(***************************************************************************)
(* A fixed registry of healthy backends without circuit breakers: the      *)
(* state after MaxBackends AddBackend calls have returned.                 *)
(***************************************************************************)
FixedBackends == [i \in 1..MaxBackends |-> i]

InitFixed ==
    /\ backends = FixedBackends
    /\ cb = [b \in BackendIds |-> NoBreaker]
    /\ ring = NewConsistentHash
    /\ hashOf = SpreadTable
    /\ pendingAdd = {}
    /\ stats = NewStats
    /\ disp = [d \in Dispatchers |-> IdleCall]
    /\ health = NewHealth
    /\ hist = NoHist
    /\ lastCan = "none"
    /\ inRing = {}
    /\ picks = <<>>
    /\ intSize \in IntSizes
    /\ probeFails = [b \in BackendIds |-> 0]
    /\ ret = NoCall
    /\ mutex = [l \in Locks |-> Unlocked]
    /\ task = NoTasks
    /\ got = NoResult

(***************************************************************************)
(* least_connections with its scan taken apart: leastConnections reads the *)
(* counters one atomic load at a time, under the read lock only, while     *)
(* other ServeHTTP calls add to them and subtract from them.               *)
(***************************************************************************)
ScanConfigs ==
    [algorithm : { AlgorithmLeastConn }, cbEnabled : { FALSE },
     failureThreshold : { 1 }, successThreshold : { 1 }, timeout : { 1 },
     halfOpenRequests : { 1 }]

InitScan ==
    /\ config \in ScanConfigs
    /\ backend = [b \in BackendIds |->
                    [NoBackend EXCEPT !.ID = b, !.Weight = 1, !.Healthy = TRUE]]
    /\ InitFixed

\* GetBackend's filter, then lines 402-403: the first counter is loaded
ScanStart(d) ==
    /\ disp[d].pc = "select"
    /\ LET E == FilterHealthy(backends) IN
        IF Len(E) = 0
        THEN /\ disp' = [disp EXCEPT ![d].resp = "503", ![d].pc = "exit"]
             /\ stats' = [stats EXCEPT !.FailedRequests = @ + 1]
        ELSE /\ disp' = [disp EXCEPT ![d] =
                            [pc |-> "scan", backend |-> Nil, resp |-> "none",
                             rest |-> Tail(E),
                             minConnections |-> backend[E[1]].Connections,
                             selected |-> E[1]]]
             /\ UNCHANGED stats
    /\ UNCHANGED << config, backends, backend, cb, ring, hashOf, pendingAdd,
                    health, hist, lastCan >>

\* lines 405-411: one turn of the loop, one counter loaded
ScanStep(d) ==
    /\ disp[d].pc = "scan"
    /\ disp[d].rest # <<>>
    /\ LET b == Head(disp[d].rest)
           connections == backend[b].Connections IN
        disp' = [disp EXCEPT ![d] =
                    IF connections < disp[d].minConnections
                    THEN [@ EXCEPT !.rest = Tail(@), !.minConnections = connections,
                                   !.selected = b]
                    ELSE [@ EXCEPT !.rest = Tail(@)]]
    /\ UNCHANGED << config, backends, backend, cb, ring, hashOf, pendingAdd,
                    stats, health, hist, lastCan >>

\* line 413: return selected; GetBackend returns it to ServeHTTP
ScanDone(d) ==
    /\ disp[d].pc = "scan"
    /\ disp[d].rest = <<>>
    /\ disp' = [disp EXCEPT ![d] =
                    [pc |-> "connect", backend |-> disp[d].selected,
                     resp |-> "none"]]
    /\ UNCHANGED << config, backends, backend, cb, ring, hashOf, pendingAdd,
                    stats, health, hist, lastCan >>

NextScan ==
    \/ \E d \in Dispatchers : Begin(d) /\ UNCHANGED aux
    \/ \E d \in Dispatchers : ScanStart(d) /\ UNCHANGED aux
    \/ \E d \in Dispatchers : ScanStep(d) /\ UNCHANGED aux
    \/ \E d \in Dispatchers : ScanDone(d) /\ UNCHANGED aux
    \/ \E d \in Dispatchers : Connect(d) /\ UNCHANGED aux
    \/ \E d \in Dispatchers : Proxy(d) /\ UNCHANGED aux
    \/ \E d \in Dispatchers : Return(d) /\ UNCHANGED aux

SpecScan == InitScan /\ [][NextScan]_vars

(***************************************************************************)
(* The selection algorithms as functions of E: ServeHTTP calls made one    *)
(* after another by one caller over a fixed registry whose weights and     *)
(* connection counts are drawn from bounded sets.                          *)
(***************************************************************************)
TheCaller == CHOOSE d \in Dispatchers : \A x \in Dispatchers : d <= x

SelectAlgorithms ==
    { AlgorithmRoundRobin, AlgorithmWeightedRR, AlgorithmWeightedRandom,
      AlgorithmWeightedLC }

SelectConfigs ==
    [algorithm : SelectAlgorithms, cbEnabled : { FALSE },
     failureThreshold : { 1 }, successThreshold : { 1 }, timeout : { 1 },
     halfOpenRequests : { 1 }]

\* the fields the algorithm reads are drawn, the others are as AddBackend
\* leaves them
SelectWeights ==
    IF config.algorithm = AlgorithmRoundRobin THEN { 1 } ELSE 0..MaxSelectWeight

SelectConns ==
    IF config.algorithm = AlgorithmWeightedLC THEN 0..MaxSelectConns ELSE { 0 }

InitSelect ==
    /\ config \in SelectConfigs
    /\ \E w \in [BackendIds -> SelectWeights], c \in [BackendIds -> SelectConns] :
          backend = [b \in BackendIds |->
                       [NoBackend EXCEPT !.ID = b, !.Weight = w[b],
                                         !.Healthy = TRUE, !.Connections = c[b]]]
    /\ InitFixed

SelBegin ==
    /\ stats.TotalRequests < MaxCalls
    /\ BeginCall(TheCaller)
    /\ UNCHANGED aux

\* GetBackend, and a note of what it returned for which request
SelSelect ==
    /\ Select(TheCaller)
    /\ picks' = Append(picks, [key |-> stats.TotalRequests,
                               backend |-> disp'[TheCaller].backend])
    /\ UNCHANGED << inRing, intSize, probeFails, ret, mutex, task, got >>

NextSelect ==
    \/ SelBegin
    \/ SelSelect
    \/ Connect(TheCaller) /\ UNCHANGED aux
    \/ Proxy(TheCaller) /\ UNCHANGED aux
    \/ Return(TheCaller) /\ UNCHANGED aux

SpecSelect == InitSelect /\ [][NextSelect]_vars

(***************************************************************************)
(* ip_hash as a function of E and the hash of the client address: calls    *)
(* made one after another by one caller over a fixed registry whose        *)
(* backends the health checker marks healthy and unhealthy, in a build     *)
(* whose int has 32 or 64 bits.                                            *)
(***************************************************************************)
IPHashConfigs ==
    [algorithm : { AlgorithmIPHash }, cbEnabled : { FALSE },
     failureThreshold : { 1 }, successThreshold : { 1 }, timeout : { 1 },
     halfOpenRequests : { 1 }]

InitIPHash ==
    /\ config \in IPHashConfigs
    /\ backend = [b \in BackendIds |->
                    [NoBackend EXCEPT !.ID = b, !.Weight = 1, !.Healthy = TRUE]]
    /\ InitFixed

IPBegin ==
    /\ stats.TotalRequests < MaxCalls
    /\ BeginCall(TheCaller)
    /\ UNCHANGED aux

\* GetBackend for a request whose client address hashes to h, and a note of
\* what it returned (Panicked when it did not return)
IPSelect(h) ==
    /\ SelectWith(TheCaller, h, 0)
    /\ picks' = Append(picks,
                       [key |-> h, among |-> FilterHealthy(backends),
                        backend |-> IF disp'[TheCaller].resp = "panic"
                                    THEN Panicked
                                    ELSE disp'[TheCaller].backend])
    /\ UNCHANGED << inRing, intSize, probeFails, ret, mutex, task, got >>

NextIPHash ==
    \/ IPBegin
    \/ \E h \in HashSpace : IPSelect(h)
    \/ Connect(TheCaller) /\ UNCHANGED aux
    \/ Proxy(TheCaller) /\ UNCHANGED aux
    \/ Return(TheCaller) /\ UNCHANGED aux
    \/ HealthTick /\ UNCHANGED aux
    \/ \E b \in BackendIds, ok \in BOOLEAN : ProbeDone(b, ok) /\ UNCHANGED aux

SpecIPHash == InitIPHash /\ [][NextIPHash]_vars

(***************************************************************************)
(* The balancer with circuit breakers whose failure threshold is drawn     *)
(* from 1..MaxProbeThreshold, and a count of each backend's failed probes. *)
(***************************************************************************)
ProbeConfigs ==
    [algorithm : { AlgorithmRoundRobin }, cbEnabled : { TRUE },
     failureThreshold : 1..MaxProbeThreshold, successThreshold : { 1 },
     timeout : { 1 }, halfOpenRequests : { 1 }]

InitProbe ==
    /\ config \in ProbeConfigs
    /\ hashOf = SpreadTable
    /\ cb = [b \in BackendIds |-> NoBreaker]
    /\ InitCommon

\* a probe completes, and is counted
ProbeDoneCounted(b, ok) ==
    /\ ProbeDone(b, ok)
    /\ probeFails' =
          [probeFails EXCEPT ![b] =
              CASE ok -> 0
                [] backend[b].Healthy /\ cb[b].state = CircuitStateClosed -> 1
                [] @ > 0 -> Min(@ + 1, config.failureThreshold)
                [] OTHER -> 0]
    /\ UNCHANGED << inRing, picks, intSize, ret, mutex, task, got >>

NextProbe ==
    \/ \E w \in WeightInputs : AddBackend(w) /\ UNCHANGED aux
    \/ \E b \in BackendIds : RemoveBackend(b) /\ UNCHANGED aux
    \/ \E d \in Dispatchers : Begin(d) /\ UNCHANGED aux
    \/ \E d \in Dispatchers : Select(d) /\ UNCHANGED aux
    \/ \E d \in Dispatchers : Connect(d) /\ UNCHANGED aux
    \/ \E d \in Dispatchers : Proxy(d) /\ UNCHANGED aux
    \/ \E d \in Dispatchers : Return(d) /\ UNCHANGED aux
    \/ HealthTick /\ UNCHANGED aux
    \/ \E b \in BackendIds, ok \in BOOLEAN : ProbeDoneCounted(b, ok)
    \/ Tick /\ UNCHANGED aux

SpecProbe == InitProbe /\ [][NextProbe]_vars

(***************************************************************************)
(* The registry's two calls with every argument, the ones they reject      *)
(* included, beside one ServeHTTP caller and the health checker.           *)
(***************************************************************************)
RegistryConfigs ==
    [algorithm : { AlgorithmRoundRobin, AlgorithmConsistentHash },
     cbEnabled : BOOLEAN, failureThreshold : { 1 }, successThreshold : { 1 },
     timeout : { 1 }, halfOpenRequests : { 1 }]

InitRegistry ==
    /\ config \in RegistryConfigs
    /\ hashOf = SpreadTable
    /\ cb = [b \in BackendIds |-> NoBreaker]
    /\ InitCommon

\* what the operations of the balancer read and write
balancer == << config, backends, backend, cb, ring, hashOf, pendingAdd, stats,
              disp, health, hist, lastCan >>

ErrInvalidURL == "invalid backend URL"
ErrNotFound == "backend not found"

RegAddBackend_AppendsFirst(parses, w) ==
    /\ AddBackend(w)
    /\ ret' = [op |-> "AddBackend", arg |-> Nil,
               err |-> IF parses THEN "nil" ELSE ErrInvalidURL]
    /\ UNCHANGED << inRing, picks, intSize, probeFails, mutex, task, got >>

\* AddBackend(backendURL, weight, metadata): parses is whether url.Parse
\* accepts backendURL (lines 218-221)
RegAddBackend(parses, w) ==
    /\ IF parses THEN AddBackend(w) ELSE UNCHANGED balancer
    /\ ret' = [op |-> "AddBackend", arg |-> Nil,
               err |-> IF parses THEN "nil" ELSE ErrInvalidURL]
    /\ UNCHANGED << inRing, picks, intSize, probeFails, mutex, task, got >>

RegRemoveBackend_RemovesLast(id) ==
    /\ IF \E i \in 1..Len(backends) : backends[i] = id
       THEN RemoveBackend(id)
       ELSE /\ backends' = SubSeq(backends, 1, Len(backends) - 1)
            /\ UNCHANGED << config, backend, cb, ring, hashOf, pendingAdd, stats,
                            disp, health, hist, lastCan >>
    /\ ret' = [op |-> "RemoveBackend", arg |-> id,
               err |-> IF \E i \in 1..Len(backends) : backends[i] = id
                       THEN "nil" ELSE ErrNotFound]
    /\ UNCHANGED << inRing, picks, intSize, probeFails, mutex, task, got >>

\* RemoveBackend(backendID): the loop finds the ID (lines 256-266) or falls
\* through to the error (line 269)
RegRemoveBackend(id) ==
    /\ IF \E i \in 1..Len(backends) : backends[i] = id
       THEN RemoveBackend(id)
       ELSE UNCHANGED balancer
    /\ ret' = [op |-> "RemoveBackend", arg |-> id,
               err |-> IF \E i \in 1..Len(backends) : backends[i] = id
                       THEN "nil" ELSE ErrNotFound]
    /\ UNCHANGED << inRing, picks, intSize, probeFails, mutex, task, got >>

NextRegistry ==
    \/ \E parses \in BOOLEAN, w \in WeightInputs : RegAddBackend(parses, w)
    \/ \E b \in BackendIds : AddBackendRing(b) /\ UNCHANGED aux
    \/ \E id \in BackendIds : RegRemoveBackend(id)
    \/ Begin(TheCaller) /\ UNCHANGED aux
    \/ Select(TheCaller) /\ UNCHANGED aux
    \/ Connect(TheCaller) /\ UNCHANGED aux
    \/ Proxy(TheCaller) /\ UNCHANGED aux
    \/ Return(TheCaller) /\ UNCHANGED aux
    \/ HealthTick /\ UNCHANGED aux
    \/ \E b \in BackendIds, ok \in BOOLEAN : ProbeDone(b, ok) /\ UNCHANGED aux
    \/ Tick /\ UNCHANGED aux

SpecRegistry == InitRegistry /\ [][NextRegistry]_vars

(***************************************************************************)
(* Stop(): the health checker's loop with its two select cases, Stop, and  *)
(* the ServeHTTP calls over a fixed registry.  SpecStopFair adds what the  *)
(* scheduler gives: a goroutine that can take a step takes it, and a       *)
(* select whose Done case stays ready takes it in the end.                 *)
(***************************************************************************)
StopConfigs ==
    [algorithm : { AlgorithmRoundRobin }, cbEnabled : { FALSE },
     failureThreshold : { 1 }, successThreshold : { 1 }, timeout : { 1 },
     halfOpenRequests : { 1 }]

InitStop ==
    /\ config \in StopConfigs
    /\ backend = [b \in BackendIds |->
                    [NoBackend EXCEPT !.ID = b, !.Weight = 1, !.Healthy = TRUE]]
    /\ InitFixed

\* the steps of a ServeHTTP call after it has begun
Proceed(d) == (Select(d) \/ Connect(d) \/ Proxy(d) \/ Return(d)) /\ UNCHANGED aux

NextStop ==
    \/ \E d \in Dispatchers : Begin(d) /\ UNCHANGED aux
    \/ \E d \in Dispatchers : Proceed(d)
    \/ HealthTick /\ UNCHANGED aux
    \/ \E b \in BackendIds, ok \in BOOLEAN : ProbeDone(b, ok) /\ UNCHANGED aux
    \/ Stop /\ UNCHANGED aux
    \/ HealthLoopReturn /\ UNCHANGED aux

SpecStop == InitStop /\ [][NextStop]_vars

SpecStopFair ==
    /\ SpecStop
    /\ WF_vars(HealthLoopReturn /\ UNCHANGED aux)
    /\ \A d \in Dispatchers : WF_vars(Proceed(d))

(***************************************************************************)
(* The balancer at the grain of its lock operations: every RLock, Lock,    *)
(* RUnlock and Unlock of lb.mutex, backend.mutex, cb.mutex and ch.mutex is *)
(* a step of the goroutine that makes it, and so are the start and the end *)
(* of the proxied call and of a probe's GET.  Lock on lb.mutex is taken in *)
(* two steps, the call that blocks new readers and the acquisition; on the *)
(* other locks in one.  SpecLockFair adds the scheduler: a goroutine that  *)
(* can take a step takes it, except that no GET and no proxied call need   *)
(* ever return and no new call need ever be made.                          *)
(***************************************************************************)
RLockable(l) == mutex[l].writer = {} /\ mutex[l].waiting = {}
Lockable(l) == mutex[l].writer = {} /\ mutex[l].readers = {}
AfterRLock(mu, l, t) == [mu EXCEPT ![l].readers = @ \cup { t }]
AfterRUnlock(mu, l, t) == [mu EXCEPT ![l].readers = @ \ { t }]
AfterRequest(mu, l, t) == [mu EXCEPT ![l].waiting = @ \cup { t }]
AfterLock(mu, l, t) == [mu EXCEPT ![l].writer = { t }, ![l].waiting = @ \ { t }]
AfterUnlock(mu, l, t) == [mu EXCEPT ![l].writer = @ \ { t }]

\* the locks goroutine t holds
Holds(t) == { l \in Locks : t \in mutex[l].readers \cup mutex[l].writer }

\* consistent_hash is the algorithm under which all four kinds of lock are
\* taken
LockConfigs ==
    [algorithm : { AlgorithmConsistentHash },
     cbEnabled : { TRUE }, failureThreshold : { 1 }, successThreshold : { 1 },
     timeout : { 1 }, halfOpenRequests : { 1 }]

InitLock ==
    /\ config \in LockConfigs
    /\ hashOf = SpreadTable
    /\ cb = [b \in BackendIds |-> NoBreaker]
    /\ InitCommon

\* what no step of SpecLock changes
fixed ==
    << config, hashOf, hist, lastCan, inRing, picks, intSize, probeFails, ret,
       got >>

LkBegin(d) ==
    /\ stats.TotalRequests < MaxLockCalls
    /\ BeginCall(d)
    /\ UNCHANGED aux

\* line 274: lb.mutex.RLock()
LkGetBackend(d) ==
    /\ disp[d].pc = "select"
    /\ RLockable(LbMutex)
    /\ mutex' = AfterRLock(mutex, LbMutex, Caller(d))
    /\ disp' = [disp EXCEPT ![d] =
                    [pc |-> "filter", backend |-> Nil, resp |-> "none",
                     rest |-> backends, healthyBackends |-> <<>>]]
    /\ UNCHANGED << fixed, backends, backend, cb, ring, pendingAdd, stats,
                    health, task >>

\* line 280: backend.mutex.RLock()
LkFilterLock(d) ==
    /\ disp[d].pc = "filter"
    /\ disp[d].rest # <<>>
    /\ RLockable(BackendMutex(Head(disp[d].rest)))
    /\ mutex' = AfterRLock(mutex, BackendMutex(Head(disp[d].rest)), Caller(d))
    /\ disp' = [disp EXCEPT ![d].pc = "canrequest"]
    /\ UNCHANGED << fixed, backends, backend, cb, ring, pendingAdd, stats,
                    health, task >>

\* line 281 up to CanRequest's cb.mutex.RLock() (690), which is called for a
\* healthy backend that has a breaker
LkCanRequest(d) ==
    /\ disp[d].pc = "canrequest"
    /\ LET b == Head(disp[d].rest) IN
        IF backend[b].Healthy /\ cb[b].state # "nil"
        THEN /\ RLockable(CbMutex(b))
             /\ mutex' = AfterRLock(mutex, CbMutex(b), Caller(d))
        ELSE mutex' = mutex
    /\ disp' = [disp EXCEPT ![d].pc = "filtered"]
    /\ UNCHANGED << fixed, backends, backend, cb, ring, pendingAdd, stats,
                    health, task >>

\* lines 281-284: CanRequest answers and unlocks, the backend is appended or
\* not, backend.mutex.RUnlock()
LkFilterUnlock(d) ==
    /\ disp[d].pc = "filtered"
    /\ LET b == Head(disp[d].rest) IN
        /\ mutex' = AfterRUnlock(AfterRUnlock(mutex, CbMutex(b), Caller(d)),
                                 BackendMutex(b), Caller(d))
        /\ disp' = [disp EXCEPT
                       ![d].pc = "filter",
                       ![d].rest = Tail(@),
                       ![d].healthyBackends =
                           IF Eligible(b) THEN Append(@, b) ELSE @]
    /\ UNCHANGED << fixed, backends, backend, cb, ring, pendingAdd, stats,
                    health, task >>

\* lines 287-313 up to the algorithm: with no healthy backend GetBackend
\* returns the error (deferred RUnlock) and ServeHTTP answers 503;
\* consistent_hash goes on to ch.mutex.RLock() (651)
LkPickLock(d) ==
    /\ disp[d].pc = "filter"
    /\ disp[d].rest = <<>>
    /\ IF Len(disp[d].healthyBackends) = 0
       THEN /\ disp' = [disp EXCEPT ![d].resp = "503", ![d].pc = "exit"]
            /\ stats' = [stats EXCEPT !.FailedRequests = @ + 1]
            /\ mutex' = AfterRUnlock(mutex, LbMutex, Caller(d))
       ELSE /\ disp' = [disp EXCEPT ![d].pc = "pick"]
            /\ UNCHANGED stats
            /\ IF config.algorithm = AlgorithmConsistentHash
               THEN /\ RLockable(ChMutex)
                    /\ mutex' = AfterRLock(mutex, ChMutex, Caller(d))
               ELSE mutex' = mutex
    /\ UNCHANGED << fixed, backends, backend, cb, ring, pendingAdd, health, task >>

LkPick_KeepsLock(d) ==
    /\ disp[d].pc = "pick"
    /\ \E key \in KeyRange, draw \in DrawRange(disp[d].healthyBackends) :
          LET selected == SelectBackend(disp[d].healthyBackends, key, draw) IN
          disp' = IF selected = Panicked
                  THEN [disp EXCEPT ![d].resp = "panic", ![d].pc = "exit"]
                  ELSE [disp EXCEPT ![d].backend = selected, ![d].pc = "connect"]
    /\ mutex' = AfterRUnlock(mutex, ChMutex, Caller(d))
    /\ UNCHANGED << fixed, backends, backend, cb, ring, pendingAdd, stats,
                    health, task >>

\* the algorithm picks, ch.mutex.RUnlock() (652), lb.mutex.RUnlock() (275),
\* GetBackend returns
LkPick(d) ==
    /\ disp[d].pc = "pick"
    /\ \E key \in KeyRange, draw \in DrawRange(disp[d].healthyBackends) :
          LET selected == SelectBackend(disp[d].healthyBackends, key, draw) IN
          disp' = IF selected = Panicked
                  THEN [disp EXCEPT ![d].resp = "panic", ![d].pc = "exit"]
                  ELSE [disp EXCEPT ![d].backend = selected, ![d].pc = "connect"]
    /\ mutex' = AfterRUnlock(AfterRUnlock(mutex, ChMutex, Caller(d)),
                             LbMutex, Caller(d))
    /\ UNCHANGED << fixed, backends, backend, cb, ring, pendingAdd, stats,
                    health, task >>

LkConnect(d) == Connect(d) /\ UNCHANGED aux

\* lines 338-343: the proxied call returns; unless it panicked the request
\* and the backend's success are counted
LkProxy(d) ==
    /\ disp[d].pc = "proxy"
    /\ \E o \in ProxyOutcomes :
          IF o = "abort"
          THEN /\ disp' = [disp EXCEPT ![d].resp = o, ![d].pc = "exit"]
               /\ UNCHANGED << stats, backend >>
          ELSE /\ disp' = [disp EXCEPT ![d].resp = o, ![d].pc = "timing"]
               /\ stats' = [stats EXCEPT !.SuccessRequests = @ + 1]
               /\ backend' = [backend EXCEPT ![disp[d].backend].SuccessCount = @ + 1]
    /\ UNCHANGED << fixed, backends, cb, ring, pendingAdd, health, mutex, task, got >>

\* line 346: backend.mutex.Lock()
LkTimeLock(d) ==
    /\ disp[d].pc = "timing"
    /\ Lockable(BackendMutex(disp[d].backend))
    /\ mutex' = AfterLock(mutex, BackendMutex(disp[d].backend), Caller(d))
    /\ disp' = [disp EXCEPT ![d].pc = "timed"]
    /\ UNCHANGED << fixed, backends, backend, cb, ring, pendingAdd, stats,
                    health, task >>

\* lines 347-351: the response time is stored, backend.mutex.Unlock()
LkTime(d) ==
    /\ disp[d].pc = "timed"
    /\ \E duration \in DurationInputs :
          backend' = [backend EXCEPT ![disp[d].backend].ResponseTime = duration]
    /\ mutex' = AfterUnlock(mutex, BackendMutex(disp[d].backend), Caller(d))
    /\ disp' = [disp EXCEPT ![d].pc =
                    IF cb[disp[d].backend].state = "nil" THEN "exit" ELSE "recording"]
    /\ UNCHANGED << fixed, backends, cb, ring, pendingAdd, stats, health, task >>

\* line 352, RecordSuccess's cb.mutex.Lock() (709)
LkRecordLock(d) ==
    /\ disp[d].pc = "recording"
    /\ Lockable(CbMutex(disp[d].backend))
    /\ mutex' = AfterLock(mutex, CbMutex(disp[d].backend), Caller(d))
    /\ disp' = [disp EXCEPT ![d].pc = "recorded"]
    /\ UNCHANGED << fixed, backends, backend, cb, ring, pendingAdd, stats,
                    health, task >>

\* lines 712-723 and the deferred cb.mutex.Unlock()
LkRecord(d) ==
    /\ disp[d].pc = "recorded"
    /\ CallRecordSuccess(disp[d].backend)
    /\ mutex' = AfterUnlock(mutex, CbMutex(disp[d].backend), Caller(d))
    /\ disp' = [disp EXCEPT ![d].pc = "exit"]
    /\ UNCHANGED << fixed, backends, backend, ring, pendingAdd, stats, health,
                    task >>

LkReturn(d) == Return(d) /\ UNCHANGED aux

\* the ticker's case of startHealthCheck, performHealthCheck's
\* lb.mutex.RLock() (536); the guard of HealthTick bounds the probes
LkTickLock ==
    /\ task.checker = "idle"
    /\ health.loop = "running"
    /\ Len(backends) > 0
    /\ health.done + Pending(BackendIds) + Len(backends) <= MaxProbes
    /\ RLockable(LbMutex)
    /\ mutex' = AfterRLock(mutex, LbMutex, Checker)
    /\ task' = [task EXCEPT !.checker = "copy"]
    /\ UNCHANGED << fixed, backends, backend, cb, ring, pendingAdd, stats,
                    disp, health >>

\* the goroutines started for the backends of list: each takes the first
\* prober that has not run
RECURSIVE StartProbes(_, _)
StartProbes(list, prober) ==
    IF list = <<>> THEN prober
    ELSE LET p == CHOOSE x \in Probers :
                     /\ prober[x].pc = "none"
                     /\ \A y \in Probers : prober[y].pc = "none" => x <= y
         IN StartProbes(Tail(list),
                        [prober EXCEPT ![p] = [pc |-> "get", b |-> Head(list),
                                               ok |-> FALSE]])

\* lines 537-543: the copy, lb.mutex.RUnlock(), a goroutine per backend
LkSnapshot ==
    /\ task.checker = "copy"
    /\ HealthTick
    /\ mutex' = AfterRUnlock(mutex, LbMutex, Checker)
    /\ task' = [task EXCEPT !.checker = "idle",
                            !.prober = StartProbes(backends, @)]
    /\ UNCHANGED << inRing, picks, intSize, probeFails, ret, got >>

\* lines 548-549: the GET returns; ok is "status 200, no error"
LkProbeReturn(p, ok) ==
    /\ task.prober[p].pc = "get"
    /\ task' = [task EXCEPT !.prober[p].pc = "lock", !.prober[p].ok = ok]
    /\ UNCHANGED << fixed, backends, backend, cb, ring, pendingAdd, stats,
                    disp, health, mutex >>

\* line 551: backend.mutex.Lock()
LkProbeLock(p) ==
    /\ task.prober[p].pc = "lock"
    /\ Lockable(BackendMutex(task.prober[p].b))
    /\ mutex' = AfterLock(mutex, BackendMutex(task.prober[p].b), Prober(p))
    /\ task' = [task EXCEPT !.prober[p].pc = "locked"]
    /\ UNCHANGED << fixed, backends, backend, cb, ring, pendingAdd, stats,
                    disp, health >>

\* lines 556-568 up to cb.mutex.Lock() in RecordFailure / RecordSuccess
LkProbeCbLock(p) ==
    /\ task.prober[p].pc = "locked"
    /\ cb[task.prober[p].b].state # "nil"
    /\ Lockable(CbMutex(task.prober[p].b))
    /\ mutex' = AfterLock(mutex, CbMutex(task.prober[p].b), Prober(p))
    /\ task' = [task EXCEPT !.prober[p].pc = "record"]
    /\ UNCHANGED << fixed, backends, backend, cb, ring, pendingAdd, stats,
                    disp, health >>

\* the rest of checkBackendHealth: the flag, the counter, the breaker, the
\* deferred cb.mutex.Unlock() and backend.mutex.Unlock()
LkProbeDone(p) ==
    /\ \/ task.prober[p].pc = "record"
       \/ task.prober[p].pc = "locked" /\ cb[task.prober[p].b].state = "nil"
    /\ ProbeDone(task.prober[p].b, task.prober[p].ok)
    /\ mutex' = AfterUnlock(AfterUnlock(mutex, CbMutex(task.prober[p].b), Prober(p)),
                            BackendMutex(task.prober[p].b), Prober(p))
    /\ task' = [task EXCEPT !.prober[p].pc = "done"]
    /\ UNCHANGED << inRing, picks, intSize, probeFails, ret, got >>

\* AddBackend up to lb.mutex.Lock() (239): new readers are held back
LkAddRequest ==
    /\ task.reg.pc = "idle"
    /\ Cardinality(Created) < MaxBackends
    /\ mutex' = AfterRequest(mutex, LbMutex, Registrar)
    /\ task' = [task EXCEPT !.reg.pc = "add.wait"]
    /\ UNCHANGED << fixed, backends, backend, cb, ring, pendingAdd, stats,
                    disp, health >>

\* lb.mutex.Lock() returns, in AddBackend or RemoveBackend
LkLock ==
    /\ task.reg.pc \in { "add.wait", "remove.wait" }
    /\ Lockable(LbMutex)
    /\ mutex' = AfterLock(mutex, LbMutex, Registrar)
    /\ task' = [task EXCEPT !.reg.pc =
                    IF @ = "add.wait" THEN "add.locked" ELSE "remove.locked"]
    /\ UNCHANGED << fixed, backends, backend, cb, ring, pendingAdd, stats,
                    disp, health >>

\* lines 240-241: the append, lb.mutex.Unlock()
LkAddAppend(w) ==
    /\ task.reg.pc = "add.locked"
    /\ AddBackend(w)
    /\ mutex' = AfterUnlock(mutex, LbMutex, Registrar)
    /\ task' = [task EXCEPT !.reg =
                    IF config.algorithm = AlgorithmConsistentHash
                    THEN [pc |-> "add.ring", arg |-> Cardinality(Created) + 1]
                    ELSE [pc |-> "idle", arg |-> Nil]]
    /\ UNCHANGED << inRing, picks, intSize, probeFails, ret, got >>

\* line 245, ch.AddBackend's ch.mutex.Lock() (616)
LkAddRingLock ==
    /\ task.reg.pc = "add.ring"
    /\ Lockable(ChMutex)
    /\ mutex' = AfterLock(mutex, ChMutex, Registrar)
    /\ task' = [task EXCEPT !.reg.pc = "add.ringlocked"]
    /\ UNCHANGED << fixed, backends, backend, cb, ring, pendingAdd, stats,
                    disp, health >>

\* lines 619-627 and the deferred ch.mutex.Unlock()
LkAddRing ==
    /\ task.reg.pc = "add.ringlocked"
    /\ AddBackendRing(task.reg.arg)
    /\ mutex' = AfterUnlock(mutex, ChMutex, Registrar)
    /\ task' = [task EXCEPT !.reg = [pc |-> "idle", arg |-> Nil]]
    /\ UNCHANGED << inRing, picks, intSize, probeFails, ret, got >>

LkRemoveRequest_RingFirst(id) ==
    /\ task.reg.pc = "idle"
    /\ Lockable(ChMutex)
    /\ mutex' = AfterRequest(AfterLock(mutex, ChMutex, Registrar), LbMutex, Registrar)
    /\ task' = [task EXCEPT !.reg = [pc |-> "remove.wait", arg |-> id]]
    /\ UNCHANGED << fixed, backends, backend, cb, ring, pendingAdd, stats,
                    disp, health >>

\* RemoveBackend(id) up to lb.mutex.Lock() (253)
LkRemoveRequest(id) ==
    /\ task.reg.pc = "idle"
    /\ mutex' = AfterRequest(mutex, LbMutex, Registrar)
    /\ task' = [task EXCEPT !.reg = [pc |-> "remove.wait", arg |-> id]]
    /\ UNCHANGED << fixed, backends, backend, cb, ring, pendingAdd, stats,
                    disp, health >>

\* lines 256-260, ch.RemoveBackend's ch.mutex.Lock() (632)
LkRemoveRingLock ==
    /\ task.reg.pc = "remove.locked"
    /\ Listed(task.reg.arg)
    /\ config.algorithm = AlgorithmConsistentHash
    /\ Lockable(ChMutex)
    /\ mutex' = AfterLock(mutex, ChMutex, Registrar)
    /\ task' = [task EXCEPT !.reg.pc = "remove.ringlocked"]
    /\ UNCHANGED << fixed, backends, backend, cb, ring, pendingAdd, stats,
                    disp, health >>

\* the rest of RemoveBackend: the ring's nodes and the list element go, or
\* the ID is not found; ch.mutex.Unlock(), lb.mutex.Unlock()
LkRemove ==
    /\ \/ task.reg.pc = "remove.ringlocked"
       \/ /\ task.reg.pc = "remove.locked"
          /\ ~(Listed(task.reg.arg) /\ config.algorithm = AlgorithmConsistentHash)
    /\ IF Listed(task.reg.arg)
       THEN RemoveBackend(task.reg.arg)
       ELSE UNCHANGED << config, backends, backend, cb, ring, hashOf, pendingAdd,
                         stats, disp, health, hist, lastCan >>
    /\ mutex' = AfterUnlock(AfterUnlock(mutex, ChMutex, Registrar),
                            LbMutex, Registrar)
    /\ task' = [task EXCEPT !.reg = [pc |-> "idle", arg |-> Nil]]
    /\ UNCHANGED << inRing, picks, intSize, probeFails, ret, got >>

\* the steps of a ServeHTTP call that has begun, but for the return of the
\* proxied call
CallerSteps(d) ==
    \/ LkGetBackend(d) \/ LkFilterLock(d) \/ LkCanRequest(d) \/ LkFilterUnlock(d)
    \/ LkPickLock(d) \/ LkPick(d) \/ LkConnect(d) \/ LkTimeLock(d) \/ LkTime(d)
    \/ LkRecordLock(d) \/ LkRecord(d) \/ LkReturn(d)

\* the steps of a probe after its GET returned
ProberSteps(p) == LkProbeLock(p) \/ LkProbeCbLock(p) \/ LkProbeDone(p)

\* the steps of an AddBackend or RemoveBackend call after it was made
RegistrarSteps ==
    LkLock \/ (\E w \in WeightInputs : LkAddAppend(w)) \/ LkAddRingLock
        \/ LkAddRing \/ LkRemoveRingLock \/ LkRemove

NextLock ==
    \/ LkBegin(TheCaller)
    \/ CallerSteps(TheCaller)
    \/ LkProxy(TheCaller)
    \/ LkTickLock
    \/ LkSnapshot
    \/ \E p \in Probers, ok \in BOOLEAN : LkProbeReturn(p, ok)
    \/ \E p \in Probers : ProberSteps(p)
    \/ LkAddRequest
    \/ \E id \in BackendIds : LkRemoveRequest(id)
    \/ RegistrarSteps

SpecLock == InitLock /\ [][NextLock]_vars

SpecLockFair ==
    /\ SpecLock
    /\ WF_vars(CallerSteps(TheCaller))
    /\ \A p \in Probers : WF_vars(ProberSteps(p))
    /\ WF_vars(LkSnapshot)
    /\ WF_vars(RegistrarSteps)

(***************************************************************************)
(* The lock operations of all the goroutines together: concurrent          *)
(* ServeHTTP calls, the health checker and its probes, AddBackend and      *)
(* RemoveBackend, and a goroutine that calls GetBackends and GetStats.     *)
(***************************************************************************)
OrderBegin(d) ==
    /\ stats.TotalRequests < MaxRequests
    /\ BeginCall(d)
    /\ UNCHANGED aux

OrderAddRequest ==
    /\ Cardinality(Created) < MaxOrderBackends
    /\ LkAddRequest

\* GetBackends' lb.mutex.RLock() (577)
LkGetBackends ==
    /\ task.reader = "idle"
    /\ RLockable(LbMutex)
    /\ mutex' = AfterRLock(mutex, LbMutex, Reader)
    /\ task' = [task EXCEPT !.reader = "backends"]
    /\ UNCHANGED << fixed, backends, backend, cb, ring, pendingAdd, stats,
                    disp, health >>

\* lines 580-582: the copy, the deferred lb.mutex.RUnlock()
LkGetBackendsReturn ==
    /\ task.reader = "backends"
    /\ mutex' = AfterRUnlock(mutex, LbMutex, Reader)
    /\ task' = [task EXCEPT !.reader = "idle"]
    /\ UNCHANGED << fixed, backends, backend, cb, ring, pendingAdd, stats,
                    disp, health >>

\* GetStats' lb.statsMutex.RLock() (587)
LkGetStats ==
    /\ task.reader = "idle"
    /\ RLockable(StatsMutex)
    /\ mutex' = AfterRLock(mutex, StatsMutex, Reader)
    /\ task' = [task EXCEPT !.reader = "stats"]
    /\ UNCHANGED << fixed, backends, backend, cb, ring, pendingAdd, stats,
                    disp, health >>

\* lines 590-591: the copy, the deferred lb.statsMutex.RUnlock()
LkGetStatsReturn ==
    /\ task.reader = "stats"
    /\ mutex' = AfterRUnlock(mutex, StatsMutex, Reader)
    /\ task' = [task EXCEPT !.reader = "idle"]
    /\ UNCHANGED << fixed, backends, backend, cb, ring, pendingAdd, stats,
                    disp, health >>

ReaderSteps == LkGetBackendsReturn \/ LkGetStatsReturn

\* the lock operation a goroutine is about to make, as [lock, write]; NoLock
\* when its next step takes no lock
NoLock == [lock |-> << "none", 0 >>, write |-> FALSE]

WantedByCaller(d) ==
    CASE disp[d].pc = "select" -> [lock |-> LbMutex, write |-> FALSE]
      [] disp[d].pc = "filter" /\ disp[d].rest # <<>> ->
            [lock |-> BackendMutex(Head(disp[d].rest)), write |-> FALSE]
      [] disp[d].pc = "canrequest"
            /\ backend[Head(disp[d].rest)].Healthy
            /\ cb[Head(disp[d].rest)].state # "nil" ->
            [lock |-> CbMutex(Head(disp[d].rest)), write |-> FALSE]
      [] disp[d].pc = "filter" /\ disp[d].rest = <<>>
            /\ Len(disp[d].healthyBackends) > 0
            /\ config.algorithm = AlgorithmConsistentHash ->
            [lock |-> ChMutex, write |-> FALSE]
      [] disp[d].pc = "timing" ->
            [lock |-> BackendMutex(disp[d].backend), write |-> TRUE]
      [] disp[d].pc = "recording" ->
            [lock |-> CbMutex(disp[d].backend), write |-> TRUE]
      [] OTHER -> NoLock

WantedByProber(p) ==
    CASE task.prober[p].pc = "lock" ->
            [lock |-> BackendMutex(task.prober[p].b), write |-> TRUE]
      [] task.prober[p].pc = "locked" /\ cb[task.prober[p].b].state # "nil" ->
            [lock |-> CbMutex(task.prober[p].b), write |-> TRUE]
      [] OTHER -> NoLock

WantedByRegistrar ==
    CASE task.reg.pc \in { "add.wait", "remove.wait" } ->
            [lock |-> LbMutex, write |-> TRUE]
      [] task.reg.pc = "add.ring" -> [lock |-> ChMutex, write |-> TRUE]
      [] task.reg.pc = "remove.locked" /\ Listed(task.reg.arg)
            /\ config.algorithm = AlgorithmConsistentHash ->
            [lock |-> ChMutex, write |-> TRUE]
      [] OTHER -> NoLock

Wanted(t) ==
    IF \E d \in Dispatchers : t = Caller(d)
    THEN WantedByCaller(CHOOSE d \in Dispatchers : t = Caller(d))
    ELSE IF \E p \in Probers : t = Prober(p)
    THEN WantedByProber(CHOOSE p \in Probers : t = Prober(p))
    ELSE IF t = Registrar THEN WantedByRegistrar
    ELSE NoLock

\* the goroutines t waits for: Lock waits for the readers and the writer,
\* RLock for the writer and for a goroutine blocked in Lock
WaitsOn(t) ==
    LET w == Wanted(t) IN
    IF w = NoLock THEN {}
    ELSE IF w.write
    THEN (mutex[w.lock].readers \cup mutex[w.lock].writer) \ { t }
    ELSE (mutex[w.lock].writer \cup mutex[w.lock].waiting) \ { t }

NextOrder ==
    \/ \E d \in Dispatchers : OrderBegin(d)
    \/ \E d \in Dispatchers : CallerSteps(d)
    \/ \E d \in Dispatchers : LkProxy(d)
    \/ LkTickLock
    \/ LkSnapshot
    \/ \E p \in Probers, ok \in BOOLEAN : LkProbeReturn(p, ok)
    \/ \E p \in Probers : ProberSteps(p)
    \/ OrderAddRequest
    \/ \E id \in BackendIds : LkRemoveRequest(id)
    \/ RegistrarSteps
    \/ LkGetBackends
    \/ LkGetStats
    \/ ReaderSteps

SpecOrder == InitLock /\ [][NextOrder]_vars

(***************************************************************************)
(* GetBackends and the caller that keeps its result, beside the balancer   *)
(* under round_robin without breakers.                                     *)
(***************************************************************************)
SnapshotConfigs ==
    [algorithm : { AlgorithmRoundRobin }, cbEnabled : { FALSE },
     failureThreshold : { 1 }, successThreshold : { 1 }, timeout : { 1 },
     halfOpenRequests : { 1 }]

InitSnapshot ==
    /\ config \in SnapshotConfigs
    /\ hashOf = SpreadTable
    /\ cb = [b \in BackendIds |-> NoBreaker]
    /\ InitCommon

\* GetBackends(): a new slice with the elements of lb.backends, which are
\* pointers to the Backend objects
GetBackends ==
    /\ got = NoResult
    /\ got' = [list |-> backends, writes |-> 0]
    /\ UNCHANGED << balancer, inRing, picks, intSize, probeFails, ret, mutex, task >>

\* the holder of the result assigns through one of its elements:
\* result[i].Weight = w
WriteResult(i, w) ==
    /\ got # NoResult
    /\ got.writes < MaxWrites
    /\ i \in 1..Len(got.list)
    /\ w # backend[got.list[i]].Weight
    /\ backend' = [backend EXCEPT ![got.list[i]].Weight = w]
    /\ got' = [got EXCEPT !.writes = @ + 1]
    /\ UNCHANGED << config, backends, cb, ring, hashOf, pendingAdd, stats, disp,
                    health, hist, lastCan, inRing, picks, intSize, probeFails,
                    ret, mutex, task >>

NextSnapshot ==
    \/ \E w \in WeightInputs : AddBackend(w) /\ UNCHANGED aux
    \/ \E b \in BackendIds : RemoveBackend(b) /\ UNCHANGED aux
    \/ Begin(TheCaller) /\ UNCHANGED aux
    \/ Select(TheCaller) /\ UNCHANGED aux
    \/ Connect(TheCaller) /\ UNCHANGED aux
    \/ Proxy(TheCaller) /\ UNCHANGED aux
    \/ Return(TheCaller) /\ UNCHANGED aux
    \/ HealthTick /\ UNCHANGED aux
    \/ \E b \in BackendIds, ok \in BOOLEAN : ProbeDone(b, ok) /\ UNCHANGED aux
    \/ GetBackends
    \/ \E i \in 1..MaxBackends, w \in 0..MaxWeight : WriteResult(i, w)

SpecSnapshot == InitSnapshot /\ [][NextSnapshot]_vars

(***************************************************************************)
(* The client address of a request: ip_hash and consistent_hash over       *)
(* requests whose X-Forwarded-For and X-Real-IP fields and RemoteAddr are  *)
(* drawn from bounded sets.                                                *)
(***************************************************************************)
EmptyString == 0
Addresses == 1..MaxAddresses

\* a header field is the list of its values; a missing field has none
RECURSIVE SeqsUpTo(_, _)
SeqsUpTo(S, n) ==
    IF n = 0 THEN { <<>> }
    ELSE SeqsUpTo(S, n - 1)
            \cup { Append(q, x) : q \in { t \in SeqsUpTo(S, n - 1) : Len(t) = n - 1 },
                                  x \in S }

HeaderFields == SeqsUpTo({ EmptyString } \cup Addresses, MaxHeaderValues)

\* RemoteAddr is set by the server to the peer's address, never empty
Requests == [xff : HeaderFields, xri : HeaderFields, RemoteAddr : Addresses]

\* http.Header.Get: the first value of the field, "" if there is none
HeaderGet(field) == IF Len(field) = 0 THEN EmptyString ELSE field[1]

getClientIP_RealIPFirst(req) ==
    IF HeaderGet(req.xri) # EmptyString THEN HeaderGet(req.xri)
    ELSE IF HeaderGet(req.xff) # EmptyString THEN HeaderGet(req.xff)
    ELSE req.RemoteAddr

getClientIP(req) ==
    IF HeaderGet(req.xff) # EmptyString THEN HeaderGet(req.xff)
    ELSE IF HeaderGet(req.xri) # EmptyString THEN HeaderGet(req.xri)
    ELSE req.RemoteAddr

\* the 32-bit hash of an address string (fnv-1a in ipHash, md5 in the
\* ring), folded into the hash space: one value per string
AddrHash(a) == (3 * a + 1) % HashSize

ClientIPConfigs ==
    [algorithm : { AlgorithmIPHash, AlgorithmConsistentHash },
     cbEnabled : { FALSE }, failureThreshold : { 1 }, successThreshold : { 1 },
     timeout : { 1 }, halfOpenRequests : { 1 }]

InitClientIP ==
    /\ config \in ClientIPConfigs
    /\ hashOf = SpreadTable
    /\ cb = [b \in BackendIds |-> NoBreaker]
    /\ InitCommon

\* GetBackend(req): the algorithm hashes lb.getClientIP(req); picks keeps
\* the latest request, the address resolved for it and what was returned
IPRequest(req) ==
    /\ SelectWith(TheCaller, AddrHash(getClientIP(req)), 0)
    /\ picks' = << [key |-> getClientIP(req), req |-> req,
                    backend |-> IF disp'[TheCaller].resp = "panic"
                                THEN Panicked
                                ELSE disp'[TheCaller].backend] >>
    /\ UNCHANGED << inRing, intSize, probeFails, ret, mutex, task, got >>

NextClientIP ==
    \/ \E w \in WeightInputs : AddBackend(w) /\ UNCHANGED aux
    \/ \E b \in BackendIds : AddBackendRing(b) /\ UNCHANGED aux
    \/ Begin(TheCaller) /\ UNCHANGED aux
    \/ \E req \in Requests : IPRequest(req)
    \/ Connect(TheCaller) /\ UNCHANGED aux
    \/ Proxy(TheCaller) /\ UNCHANGED aux
    \/ Return(TheCaller) /\ UNCHANGED aux

SpecClientIP == InitClientIP /\ [][NextClientIP]_vars

(***************************************************************************)
(* round_robin under concurrent ServeHTTP calls over a fixed registry of   *)
(* healthy backends without circuit breakers.                              *)
(***************************************************************************)
RoundRobinConfigs ==
    [algorithm : { AlgorithmRoundRobin }, cbEnabled : { FALSE },
     failureThreshold : { 1 }, successThreshold : { 1 }, timeout : { 1 },
     halfOpenRequests : { 1 }]

InitRoundRobin ==
    /\ config \in RoundRobinConfigs
    /\ backend = [b \in BackendIds |->
                    [NoBackend EXCEPT !.ID = b, !.Weight = 1, !.Healthy = TRUE]]
    /\ InitFixed

\* lines 318-323 of one of the calls
RRBegin(d) ==
    /\ stats.TotalRequests < MaxCalls
    /\ BeginCall(d)
    /\ UNCHANGED aux

\* GetBackend in one of the calls, and a note of the counter value
\* roundRobin loaded and of the backend it returned
RRSelect(d) ==
    /\ Select(d)
    /\ picks' = Append(picks, [key |-> stats.TotalRequests,
                               backend |-> disp'[d].backend])
    /\ UNCHANGED << inRing, intSize, probeFails, ret, mutex, task, got >>

NextRoundRobin ==
    \/ \E d \in Dispatchers : RRBegin(d)
    \/ \E d \in Dispatchers : RRSelect(d)
    \/ \E d \in Dispatchers : Connect(d) /\ UNCHANGED aux
    \/ \E d \in Dispatchers : Proxy(d) /\ UNCHANGED aux
    \/ \E d \in Dispatchers : Return(d) /\ UNCHANGED aux

SpecRoundRobin == InitRoundRobin /\ [][NextRoundRobin]_vars

(***************************************************************************)
(* The balancer with circuit breakers under round_robin, and a log of the  *)
(* requests GetBackend routed to a backend whose breaker was Open: picks   *)
(* holds, per such request, the backend; a backend's entries are dropped   *)
(* when its breaker changes state.                                         *)
(***************************************************************************)
AdmitConfigs ==
    [algorithm : { AlgorithmRoundRobin }, cbEnabled : { TRUE },
     failureThreshold : { 1 }, successThreshold : { 1 }, timeout : { 1 },
     halfOpenRequests : { 1 }]

InitAdmit ==
    /\ config \in AdmitConfigs
    /\ hashOf = SpreadTable
    /\ cb = [b \in BackendIds |-> NoBreaker]
    /\ InitCommon

AdmitLog ==
    LET kept == SelectSeq(picks, LAMBDA e : cb'[e.backend].state = cb[e.backend].state)
        routed == { d \in Dispatchers :
                      /\ disp[d].pc = "select"
                      /\ disp'[d].pc = "connect"
                      /\ disp'[d].backend # Nil
                      /\ cb[disp'[d].backend].state = CircuitStateOpen }
    IN  IF routed = {} THEN kept
        ELSE Append(kept, [key |-> stats.TotalRequests,
                           backend |-> disp'[CHOOSE d \in routed : TRUE].backend])

Logged ==
    /\ picks' = AdmitLog
    /\ UNCHANGED << inRing, intSize, probeFails, ret, mutex, task, got >>

NextAdmit ==
    \/ \E w \in WeightInputs : AddBackend(w) /\ Logged
    \/ \E b \in BackendIds : RemoveBackend(b) /\ Logged
    \/ \E d \in Dispatchers : Begin(d) /\ Logged
    \/ \E d \in Dispatchers : Select(d) /\ Logged
    \/ \E d \in Dispatchers : Connect(d) /\ Logged
    \/ \E d \in Dispatchers : Proxy(d) /\ Logged
    \/ \E d \in Dispatchers : Return(d) /\ Logged
    \/ HealthTick /\ Logged
    \/ \E b \in BackendIds, ok \in BOOLEAN : ProbeDone(b, ok) /\ Logged
    \/ Tick /\ Logged

SpecAdmit == InitAdmit /\ [][NextAdmit]_vars

(***************************************************************************)
(* Properties                                                              *)
(***************************************************************************)
\* The rule of the design for "the circuit permits traffic": Closed always,
\* Open once more than the timeout has passed since the last failure,
\* HalfOpen while the successes are below the half-open allowance.
Permits(c) ==
    \/ c.state = "nil"
    \/ c.state = CircuitStateClosed
    \/ c.state = CircuitStateOpen /\ c.sinceFailure > config.timeout
    \/ c.state = CircuitStateHalfOpen /\ c.successCount < config.halfOpenRequests

Registered(b) == \E i \in 1..Len(backends) : backends[i] = b

HealthyAndPermitted(b) == backend[b].Healthy /\ Permits(cb[b])

NoneEligible == \A b \in BackendIds : Registered(b) => ~HealthyAndPermitted(b)

\* ServeHTTP call d leaves GetBackend in this step
Selects(d) == disp[d].pc = "select" /\ disp'[d].pc # "select"

\* C1: every backend GetBackend returns is, in the state it is selected in,
\* flagged healthy and permitted by its circuit breaker (if it has one).
C1_SelectedIsEligible ==
    [][\A d \in Dispatchers :
          (Selects(d) /\ disp'[d].backend # Nil)
              => HealthyAndPermitted(disp'[d].backend)]_vars

\* C2: a call that finds no registered backend eligible answers 503, has no
\* backend, adds one to FailedRequests and changes no backend and no circuit
\* breaker, neither then nor when it returns; and only such a call answers 503.
C2_NoneEligibleIs503 ==
    [][\A d \in Dispatchers :
          /\ (Selects(d) /\ NoneEligible)
                => /\ disp'[d] = [pc |-> "exit", backend |-> Nil, resp |-> "503"]
                   /\ stats'.FailedRequests = stats.FailedRequests + 1
                   /\ stats'.SuccessRequests = stats.SuccessRequests
                   /\ backend' = backend
                   /\ cb' = cb
          /\ (Selects(d) /\ ~NoneEligible)
                => /\ disp'[d].resp # "503"
                   /\ stats'.FailedRequests = stats.FailedRequests
          /\ (disp[d].resp = "503" /\ disp'[d] # disp[d])
                => /\ disp'[d].pc = "idle"
                   /\ backend' = backend
                   /\ cb' = cb]_vars

\* a call answered 503 while a registered backend was healthy but blocked by
\* its open circuit
C2_Witness ==
    \E d \in Dispatchers :
        /\ disp[d].resp = "503"
        /\ \E b \in BackendIds :
              /\ Registered(b)
              /\ backend[b].Healthy
              /\ cb[b].state = CircuitStateOpen
              /\ cb[b].sinceFailure <= config.timeout

\* C3: after failure_threshold RecordFailure calls in a row the breaker is
\* Open, and CanRequest is false as long as no more than the timeout has
\* passed since the last failure.
C3_OpensAtThreshold ==
    hist.fails >= config.failureThreshold
        => /\ cb[TheBreaker].state = CircuitStateOpen
           /\ (cb[TheBreaker].sinceFailure <= config.timeout
                  => ~CanRequest(cb[TheBreaker]))

C3_Witness ==
    /\ config.failureThreshold >= 2
    /\ hist.fails = config.failureThreshold
    /\ cb[TheBreaker].failureCount = config.failureThreshold
    /\ cb[TheBreaker].state = CircuitStateOpen
    /\ lastCan = "false"

\* C4: in HalfOpen one RecordFailure opens the breaker with the success
\* count 0; a RecordSuccess that brings the success count to the success
\* threshold closes it with both counters 0, and one that does not leaves it
\* HalfOpen.
C4_HalfOpenTransitions ==
    [][cb[TheBreaker].state = CircuitStateHalfOpen =>
          /\ CBRecordFailure
                => /\ cb'[TheBreaker].state = CircuitStateOpen
                   /\ cb'[TheBreaker].successCount = 0
          /\ (CBRecordSuccess
              /\ cb[TheBreaker].successCount + 1 >= config.successThreshold)
                => /\ cb'[TheBreaker].state = CircuitStateClosed
                   /\ cb'[TheBreaker].failureCount = 0
                   /\ cb'[TheBreaker].successCount = 0
          /\ (CBRecordSuccess
              /\ cb[TheBreaker].successCount + 1 < config.successThreshold)
                => /\ cb'[TheBreaker].state = CircuitStateHalfOpen
                   /\ cb'[TheBreaker].successCount
                          = cb[TheBreaker].successCount + 1]_vars

\* a breaker that was HalfOpen has been closed by a success that brought its
\* success count to a threshold of two or more
C4_Witness ==
    /\ config.successThreshold >= 2
    /\ cb[TheBreaker].state = CircuitStateClosed
    /\ cb[TheBreaker].failureCount = 0
    /\ cb[TheBreaker].successCount = 0
    /\ hist.probes >= 1

\* C5: a breaker recovers: success_threshold successes recorded after the
\* timeout has elapsed, with no failure between them, leave it Closed.
C5_Recovers ==
    hist.probes >= config.successThreshold
        => cb[TheBreaker].state = CircuitStateClosed

\* C6: on an Open breaker CanRequest answers true exactly when more than the
\* timeout has passed since the last failure; a CanRequest call changes
\* neither the state nor the counters nor the failure time.
C6_CanRequestOpen ==
    [][CBCanRequest =>
          /\ cb' = cb
          /\ cb[TheBreaker].state = CircuitStateOpen
                => (lastCan' = "true"
                        <=> cb[TheBreaker].sinceFailure > config.timeout)]_vars

C6_Witness ==
    /\ cb[TheBreaker].state = CircuitStateOpen
    /\ cb[TheBreaker].sinceFailure = config.timeout + 1
    /\ lastCan = "true"

\* C7, as claimed: whenever the breaker's state changes to Closed or to Open,
\* both counters are 0 afterwards.
C7_CountersZeroAfterTransition ==
    [][(cb'[TheBreaker].state # cb[TheBreaker].state
        /\ cb'[TheBreaker].state \in { CircuitStateClosed, CircuitStateOpen })
          => /\ cb'[TheBreaker].failureCount = 0
             /\ cb'[TheBreaker].successCount = 0]_vars

\* C7, amended: a change to Open leaves the success counter 0 and the
\* failure counter at the count that opened it; a change to Closed leaves
\* both counters 0.
C7_Amended ==
    [][cb'[TheBreaker].state # cb[TheBreaker].state =>
          /\ cb'[TheBreaker].state = CircuitStateOpen
                => /\ cb'[TheBreaker].successCount = 0
                   /\ cb'[TheBreaker].failureCount
                          = cb[TheBreaker].failureCount + 1
          /\ cb'[TheBreaker].state = CircuitStateClosed
                => /\ cb'[TheBreaker].failureCount = 0
                   /\ cb'[TheBreaker].successCount = 0]_vars

\* the breaker has just opened after successes had been counted
C7_Witness ==
    /\ cb[TheBreaker].state = CircuitStateOpen
    /\ cb[TheBreaker].successCount = 0
    /\ cb[TheBreaker].failureCount = config.failureThreshold
    /\ cb[TheBreaker].sinceFailure = 0
    /\ hist.fails = config.failureThreshold
    /\ config.failureThreshold >= 2

\* the proxied call of d ends in this step
Completes(d) == disp[d].pc = "proxy" /\ disp'[d].pc # "proxy"

\* C8: when the proxied call failed, the call is not counted in
\* SuccessRequests nor in the backend's SuccessCount and RecordFailure, not
\* RecordSuccess, is called on the backend's breaker.
C8_FailureIsRecorded ==
    [][\A d \in Dispatchers :
          (Completes(d) /\ disp'[d].resp = "error")
              => LET b == disp[d].backend IN
                 /\ stats'.SuccessRequests = stats.SuccessRequests
                 /\ backend'[b].SuccessCount = backend[b].SuccessCount
                 /\ cb[b].state # "nil" => cb'[b] = RecordFailure(cb[b])]_vars

\* the calls that have counted themselves into b's Connections and not yet
\* out of it
Forwarding(b) ==
    { d \in Dispatchers : disp[d].backend = b /\ disp[d].pc \in { "proxy", "exit" } }

\* C9: a backend's Connections is the number of calls between their
\* increment and their decrement: never negative, 0 with no call in flight.
C9_ConnectionsCount ==
    \A b \in BackendIds :
        /\ backend[b].Connections = Cardinality(Forwarding(b))
        /\ backend[b].Connections >= 0

\* two calls forward to one backend at once
C9_Witness ==
    \E b \in BackendIds :
        /\ backend[b].Connections = 2
        /\ \A d \in Dispatchers : disp[d].pc = "proxy" /\ disp[d].backend = b

\* C10: with a non-empty eligible set GetBackend returns a backend, never nil.
C10_NeverNil ==
    \A d \in Dispatchers : disp[d].pc = "connect" => disp[d].backend # Nil

\* C11: a backend that RemoveBackend has taken off the registry is referred to
\* by no entry of the hash ring, whatever AddBackend calls are still running.
C11_RemovedIsOffTheRing ==
    \A b \in BackendIds :
        (backend[b].ID # Nil /\ ~Registered(b))
            => \A h \in HashSpace : ring.hashRing[h] # b

IsSorted(s) == \A i \in 1..(Len(s) - 1) : s[i] <= s[i + 1]

\* the hashes the ring's map has an entry for
Mapped(r) == { h \in HashSpace : r.hashRing[h] # Nil }

\* C12: the ring's hash sequence is ascending, and the ring holds
\* virtualNodes entries for each backend that is on it, in the sequence and
\* in the map.
C12_SortedAndCounted ==
    /\ IsSorted(ring.sortedHashes)
    /\ Len(ring.sortedHashes) = VirtualNodes * Cardinality(inRing)
    /\ Cardinality(Mapped(ring)) = VirtualNodes * Cardinality(inRing)

\* no two virtual-node keys hash alike
CollisionFree ==
    \A b1, b2 \in BackendIds, i1, i2 \in VNodes :
        hashOf[b1][i1] = hashOf[b2][i2] => (b1 = b2 /\ i1 = i2)

\* The ring hash a lookup of h must land on: the smallest one >= h, or the
\* smallest of all when h is past the last.
Smallest(S) == CHOOSE x \in S : \A y \in S : x <= y

RingHashes(r) == { r.sortedHashes[i] : i \in 1..Len(r.sortedHashes) }

Landing(r, h) ==
    LET above == { x \in RingHashes(r) : x >= h } IN
    IF above # {} THEN Smallest(above) ELSE Smallest(RingHashes(r))

\* C13: GetBackend returns what the map holds for the smallest ring hash
\* >= hash(key), for the smallest ring hash of all when hash(key) is past
\* the last one, and nothing on an empty ring.
C13_Lookup ==
    [][\A h \in HashSpace :
          CHGetBackend(h)
              => picks'[1].backend =
                    IF ring.sortedHashes = <<>> THEN Nil
                    ELSE ring.hashRing[Landing(ring, h)]]_vars

\* a lookup past the last ring hash that wrapped to the backend of the first,
\* another backend owning the last
C13_Witness ==
    /\ picks # <<>>
    /\ ring.sortedHashes # <<>>
    /\ picks[1].key > ring.sortedHashes[Len(ring.sortedHashes)]
    /\ picks[1].backend = ring.hashRing[ring.sortedHashes[1]]
    /\ picks[1].backend \in inRing
    /\ ring.hashRing[ring.sortedHashes[Len(ring.sortedHashes)]] \in inRing
    /\ ring.hashRing[ring.sortedHashes[Len(ring.sortedHashes)]] # picks[1].backend

\* the key -> backend mapping of two rings is the same
SameMapping(r1, r2) ==
    \A h \in HashSpace : RingGetBackend(r1, h) = RingGetBackend(r2, h)

\* C14: removing a backend that is on the ring and adding it again gives
\* back the same hash sequence and the same backend for every key.
C14_RemoveAddRestores ==
    \A b \in inRing :
        LET again == RingAddBackend(RingRemoveBackend(ring, b), b) IN
        /\ again.sortedHashes = ring.sortedHashes
        /\ SameMapping(again, ring)

\* C15: a removal of b changes the backend of no key that was not mapped to
\* b before it, and an addition of b changes the backend of no key that is
\* not mapped to b after it.
C15_MinimalDisruption ==
    [][\A b \in BackendIds, h \in HashSpace :
          /\ (CHRemoveBackend(b) /\ RingGetBackend(ring, h) # b)
                => RingGetBackend(ring', h) = RingGetBackend(ring, h)
          /\ (CHAddBackend(b) /\ RingGetBackend(ring', h) # b)
                => RingGetBackend(ring', h) = RingGetBackend(ring, h)]_vars

\* C16: the backend least_connections returns has, when it is returned, a
\* connection count that exceeds that of no other backend of E, other calls
\* changing the counters during the scan or not.
C16_ReturnsALeast ==
    [][\A d \in Dispatchers :
          ScanDone(d)
              => \A i \in 1..Len(backends) :
                    backend[disp'[d].backend].Connections
                        <= backend[backends[i]].Connections]_vars

\* the weight of the first i backends of E
RECURSIVE PrefixWeight(_, _)
PrefixWeight(E, i) ==
    IF i = 0 THEN 0 ELSE PrefixWeight(E, i - 1) + backend[E[i]].Weight

\* the positions of E whose weight band [PrefixWeight(i-1), PrefixWeight(i))
\* contains the draw r
BandsOf(E, r) ==
    { i \in 1..Len(E) : PrefixWeight(E, i - 1) <= r /\ r < PrefixWeight(E, i) }

WeightedByDraw ==
    config.algorithm \in { AlgorithmWeightedRR, AlgorithmWeightedRandom }

\* C17: under weighted_round_robin and weighted_random with a positive total
\* weight, every draw r of [0, totalWeight) lies in the band of exactly one
\* backend and that backend is the result; so weight(b) of the totalWeight
\* draws select b, and no selection made is of a weight-0 backend.
C17_WeightBands ==
    LET E == FilterHealthy(backends)
        total == PrefixWeight(E, Len(E)) IN
    (WeightedByDraw /\ total > 0) =>
        /\ \A r \in 0..(total - 1) :
              /\ Cardinality(BandsOf(E, r)) = 1
              /\ \A i \in BandsOf(E, r) : SelectBackend(E, 0, r) = E[i]
        /\ \A i \in 1..Len(E) :
              Cardinality({ r \in 0..(total - 1) : SelectBackend(E, 0, r) = E[i] })
                  = backend[E[i]].Weight
        /\ \A k \in 1..Len(picks) : backend[picks[k].backend].Weight > 0

\* weights 2 and 1: both backends have been selected, the second after the
\* first
C17_Witness ==
    /\ WeightedByDraw
    /\ Len(backends) >= 2
    /\ backend[backends[1]].Weight = 2
    /\ backend[backends[2]].Weight = 1
    /\ Len(picks) >= 2
    /\ picks[1].backend = backends[1]
    /\ picks[2].backend = backends[2]

InOrder(E) == { E[i] : i \in 1..Len(E) }

ByWeight ==
    config.algorithm \in { AlgorithmWeightedRR, AlgorithmWeightedRandom,
                           AlgorithmWeightedLC }

\* C18: when every backend of E has weight 0, each backend of E is a possible
\* result of the weighted algorithms.
C18_ZeroWeightsUniform ==
    LET E == FilterHealthy(backends) IN
    (ByWeight /\ E # <<>> /\ \A b \in InOrder(E) : backend[b].Weight = 0)
        => \A b \in InOrder(E) :
              \E draw \in DrawRange(E) : SelectBackend(E, 0, draw) = b

\* a/b <= c/d for weights b, d > 0
RatioAtMost(b1, b2) ==
    backend[b1].Connections * backend[b2].Weight
        <= backend[b2].Connections * backend[b1].Weight

\* C19: when E has a backend of positive weight, the backend that
\* weighted_least_connections returns has positive weight, and no backend of
\* positive weight in E has a smaller ratio connections/weight.
C19_SkipsZeroWeights ==
    [][LET E == FilterHealthy(backends)
           chosen == disp'[TheCaller].backend IN
       (/\ Selects(TheCaller)
        /\ config.algorithm = AlgorithmWeightedLC
        /\ \E b \in InOrder(E) : backend[b].Weight > 0)
           => /\ backend[chosen].Weight > 0
              /\ \A b \in InOrder(E) :
                    backend[b].Weight > 0 => RatioAtMost(chosen, b)]_vars

\* C20: under round_robin with the fixed eligible set E of n backends and
\* calls made one after another, each call is given E[counter mod n] for a
\* request counter that grows by one per call: the next call gets the next
\* backend of E in order, the first after the last, and any n calls in a row
\* get n different backends.
C20_RoundRobinCycles ==
    LET E == FilterHealthy(backends)
        n == Len(E) IN
    config.algorithm = AlgorithmRoundRobin =>
        \A k \in 1..Len(picks) :
            /\ \E i \in 1..n :
                  /\ i - 1 = picks[k].key % n
                  /\ picks[k].backend = E[i]
                  /\ k < Len(picks) =>
                        /\ picks[k + 1].key = picks[k].key + 1
                        /\ picks[k + 1].backend = E[(i % n) + 1]
            /\ \A j \in (k + 1)..Len(picks) :
                  j - k < n => picks[j].backend # picks[k].backend

\* two full rounds over all the registered backends have been made
C20_Witness ==
    /\ config.algorithm = AlgorithmRoundRobin
    /\ Len(backends) = MaxBackends
    /\ Len(picks) >= 2 * MaxBackends
    /\ picks[1].backend = picks[1 + MaxBackends].backend
    /\ { picks[k].backend : k \in 1..MaxBackends } = InOrder(backends)

\* C21: ip_hash returns E[h mod len(E)], h being the unsigned 32-bit hash of
\* the resolved client address: whenever E is not empty the call returns a
\* backend, its index h mod len(E) lies in [0, len(E)) for every value of h,
\* and two calls with the same h and the same E return the same backend.
C21_IPHashIsEOfHMod ==
    \A i \in 1..Len(picks) :
        Len(picks[i].among) > 0 =>
            /\ picks[i].backend # Panicked
            /\ picks[i].backend = picks[i].among[(picks[i].key % Len(picks[i].among)) + 1]
            /\ \A j \in 1..Len(picks) :
                  (picks[j].key = picks[i].key /\ picks[j].among = picks[i].among)
                      => picks[j].backend = picks[i].backend

\* a probe of b completes in this step
ProbeEnds(b) == health'.probes[b] < health.probes[b]

ProbeSucceeded(b) ==
    /\ backend'[b] = [backend[b] EXCEPT !.Healthy = TRUE, !.SuccessCount = @ + 1]
    /\ cb'[b] = IF cb[b].state = "nil" THEN cb[b] ELSE RecordSuccess(cb[b])

ProbeFailed(b) ==
    /\ backend'[b] = [backend[b] EXCEPT !.Healthy = FALSE, !.ErrorCount = @ + 1]
    /\ cb'[b] = IF cb[b].state = "nil" THEN cb[b] ELSE RecordFailure(cb[b])

\* C22: a health probe of a backend has exactly one of two effects: it marks
\* the backend healthy, adds 1 to its SuccessCount and records a success on
\* its breaker, or it marks it unhealthy, adds 1 to its ErrorCount and
\* records a failure on its breaker; no other backend, breaker, list or ring
\* changes.
C22_ProbeEffects ==
    [][\A b \in BackendIds :
          ProbeEnds(b) =>
              /\ ProbeSucceeded(b) \/ ProbeFailed(b)
              /\ ~(ProbeSucceeded(b) /\ ProbeFailed(b))
              /\ \A x \in BackendIds \ { b } :
                    backend'[x] = backend[x] /\ cb'[x] = cb[x]
              /\ UNCHANGED << backends, ring, stats, disp >>]_vars

\* both effects have happened: one backend failed its probe and its breaker
\* opened, another passed its probe
C22_Witness ==
    /\ health.done = 2
    /\ \E b \in BackendIds : \E x \in BackendIds \ { b } :
          /\ ~backend[b].Healthy
          /\ backend[b].ErrorCount = 1
          /\ cb[b].state = CircuitStateOpen
          /\ backend[x].Healthy
          /\ backend[x].SuccessCount = 1
          /\ backend[x].ErrorCount = 0

\* C23: after failure_threshold failed probes of a backend in a row, the
\* first of them finding it healthy with a Closed breaker, the backend is
\* unhealthy and its breaker is Open, whatever ServeHTTP calls ran meanwhile.
C23_FailedProbesOpen ==
    \A b \in BackendIds :
        probeFails[b] >= config.failureThreshold
            => ~backend[b].Healthy /\ cb[b].state = CircuitStateOpen

\* C24: on a Closed breaker RecordSuccess sets the failure counter to 0 and
\* leaves it Closed; the counter of a Closed breaker is the number of
\* failures recorded since the last success; and a Closed breaker leaves
\* Closed only for Open, in a step that brings the failures recorded since
\* the last success to the failure threshold.
C24_ClosedForgives ==
    [][cb[TheBreaker].state = CircuitStateClosed =>
          /\ cb[TheBreaker].failureCount = hist.fails
          /\ hist.fails < config.failureThreshold
          /\ CBRecordSuccess =>
                /\ cb'[TheBreaker].failureCount = 0
                /\ cb'[TheBreaker].state = CircuitStateClosed
          /\ cb'[TheBreaker].state # CircuitStateClosed =>
                /\ cb'[TheBreaker].state = CircuitStateOpen
                /\ hist'.fails = config.failureThreshold]_vars

\* at least failure_threshold failures were recorded, with a success between
\* them, and the breaker is Closed
C24_Witness ==
    /\ hist.failures >= config.failureThreshold
    /\ config.failureThreshold >= 2
    /\ cb[TheBreaker].state = CircuitStateClosed
    /\ cb[TheBreaker].failureCount = config.failureThreshold - 1
    /\ cb[TheBreaker].successCount >= 1

\* an AddBackend / RemoveBackend call returns err in this step
Returns(op, err) == ret'.op = op /\ ret'.err = err /\ ret' # ret

\* C25: an AddBackend call whose URL does not parse returns the error and
\* changes neither the backend list nor the ring nor any backend or breaker,
\* nor anything else of the balancer.
C25_InvalidURLNoChange ==
    [][Returns("AddBackend", ErrInvalidURL) =>
          /\ UNCHANGED << backends, ring, backend, cb >>
          /\ UNCHANGED balancer]_vars

\* the call was rejected with backends registered, one of them on the ring
\* or with a changed state
C25_Witness ==
    /\ ret = [op |-> "AddBackend", arg |-> Nil, err |-> ErrInvalidURL]
    /\ Len(backends) >= 1
    /\ \E i \in 1..Len(backends) :
          \/ Len(ring.sortedHashes) > 0
          \/ ~backend[backends[i]].Healthy

Without(list, id) == SelectSeq(list, LAMBDA x : x # id)

RoundStarts == \E b \in BackendIds : health'.probes[b] > health.probes[b]

\* C27: once Stop has been called the health-check loop returns in the end
\* and stays returned, and a returned loop starts no probe round; the step
\* of Stop changes no ServeHTTP call, no backend and no statistic; every call
\* in flight after Stop runs to its end; and an idle caller can begin a call
\* after Stop as before it.
C27_StopEndsHealthLoop ==
    /\ health.cancelled ~> [](health.loop = "returned")
    /\ [][health.loop = "returned" => ~RoundStarts]_vars
    /\ [][health'.cancelled # health.cancelled
            => UNCHANGED << disp, stats, backend, backends, cb >>]_vars
    /\ \A d \in Dispatchers :
          (health.cancelled /\ disp[d].pc # "idle") ~> (disp[d].pc = "idle")
    /\ [](\A d \in Dispatchers :
            (disp[d].pc = "idle" /\ stats.TotalRequests < MaxRequests)
                => ENABLED (Begin(d) /\ UNCHANGED aux))

\* Stop was called and the loop has returned while a ServeHTTP call is being
\* proxied and a further probe round could have been started
C27_Witness ==
    /\ health.cancelled
    /\ health.loop = "returned"
    /\ \E d \in Dispatchers : disp[d].pc = "proxy"
    /\ Len(backends) > 0
    /\ health.done + Pending(BackendIds) + Len(backends) <= MaxProbes

\* the goroutines inside network I/O: a ServeHTTP call in its proxied call, a
\* probe in its GET
InNetworkIO ==
    { Caller(d) : d \in { x \in Dispatchers : disp[x].pc = "proxy" } }
        \cup { Prober(p) : p \in { x \in Probers : task.prober[x].pc = "get" } }

\* C28: a goroutine inside network I/O holds no lock of the registry, of a
\* backend, of the ring or of a breaker; and an AddBackend or RemoveBackend
\* call that is blocked in lb.mutex.Lock() acquires the lock in the end, even
\* if no proxied call and no GET ever returns.
C28_NoLockAcrossIO ==
    /\ [](\A t \in InNetworkIO : Holds(t) = {})
    /\ (Registrar \in mutex[LbMutex].waiting) ~> (Registrar \in mutex[LbMutex].writer)

\* the registry is locked for writing while a proxied call and a probe's GET
\* are under way
C28_Witness ==
    /\ Registrar \in mutex[LbMutex].writer
    /\ \E d \in Dispatchers : disp[d].pc = "proxy"
    /\ \E p \in Probers : task.prober[p].pc = "get"

\* C29: a health-check tick starts exactly one probe for each backend that
\* is in the list at the tick and none for any other, and changes nothing
\* else; the probes then complete one by one, in any order, beside the
\* ServeHTTP calls (the witness).
C29_OneProbePerBackend ==
    [][RoundStarts =>
          /\ \A b \in BackendIds :
                health'.probes[b] = health.probes[b] + (IF Listed(b) THEN 1 ELSE 0)
          /\ health'.done = health.done
          /\ UNCHANGED << backends, backend, cb, ring, stats, disp >>]_vars

\* of two listed backends probed by one tick, one has been updated by its
\* probe while the other's probe is still pending, and a ServeHTTP call is
\* being proxied meanwhile
C29_Witness ==
    \E b \in BackendIds : \E x \in BackendIds \ { b } :
        /\ Listed(b) /\ Listed(x)
        /\ health.done = 1
        /\ health.probes[b] = 0
        /\ backend[b].ErrorCount = 1
        /\ ~backend[b].Healthy
        /\ health.probes[x] = 1
        /\ backend[x].ErrorCount = 0
        /\ \E d \in Dispatchers : disp[d].pc = "proxy"

\* what the holder of the GetBackends result reads in it
ResultView == [i \in 1..Len(got.list) |-> backend[got.list[i]]]

\* C30: the value GetBackends returned is a copy: no later AddBackend,
\* RemoveBackend, probe or ServeHTTP call changes what its holder reads in
\* it, and an assignment its holder makes through it changes no backend of
\* the registry.
C30_ResultIsACopy ==
    [][got # NoResult =>
          /\ got'.writes = got.writes => ResultView' = ResultView
          /\ got'.writes # got.writes => backend' = backend]_vars

\* C31: a ServeHTTP call selects once and forwards once.  Its selection
\* starts only when the call starts, its proxied call starts only from its
\* one selection and goes to the backend selected, the backend it holds is
\* never exchanged for another, and once the proxied call has ended, failed
\* or not, the call does nothing but return.
C31_NoRetry ==
    [][\A d \in Dispatchers :
          /\ (disp'[d].pc = "select" /\ disp[d].pc # "select")
                => disp[d].pc = "idle"
          /\ (disp'[d].pc = "connect" /\ disp[d].pc # "connect")
                => disp[d].pc = "select"
          /\ (disp'[d].pc = "proxy" /\ disp[d].pc # "proxy")
                => disp[d].pc = "connect" /\ disp'[d].backend = disp[d].backend
          /\ disp[d].backend # Nil
                => disp'[d].backend \in { disp[d].backend, Nil }
          /\ disp[d].pc = "exit" => disp'[d].pc \in { "exit", "idle" }]_vars

\* a proxied call has failed while another registered backend was healthy
\* and permitted: a retry would have had somewhere to go
C31_Witness ==
    \E d \in Dispatchers :
        /\ disp[d].pc = "exit"
        /\ disp[d].resp = "error"
        /\ disp[d].backend # Nil
        /\ \E b \in BackendIds \ { disp[d].backend } :
              Registered(b) /\ HealthyAndPermitted(b)

\* the outcome of the selection a step makes for the caller
Outcome == 
    IF disp'[TheCaller].resp = "panic" THEN Panicked
    ELSE disp'[TheCaller].backend

\* C32: the client address ip_hash and consistent_hash work from is the
\* X-Forwarded-For value if that is not empty, otherwise the X-Real-IP
\* value if that is not empty, otherwise the connection's address; the
\* backend selected is the one the algorithm gives for that address.
C32_ClientAddressOrder ==
    [][picks' # picks =>
          LET req == picks'[1].req
              E == FilterHealthy(backends)
              addr == CASE HeaderGet(req.xff) # EmptyString -> HeaderGet(req.xff)
                        [] HeaderGet(req.xff) = EmptyString
                              /\ HeaderGet(req.xri) # EmptyString -> HeaderGet(req.xri)
                        [] OTHER -> req.RemoteAddr
          IN  /\ picks'[1].key = addr
              /\ Len(E) > 0 => Outcome = SelectBackend(E, AddrHash(addr), 0)]_vars

\* a request with all three addresses, each different from the one before
\* it in the order, was routed by its X-Forwarded-For value among two
\* backends
C32_Witness ==
    /\ Len(picks) = 1
    /\ Len(backends) = 2
    /\ HeaderGet(picks[1].req.xff) # EmptyString
    /\ HeaderGet(picks[1].req.xri) # EmptyString
    /\ HeaderGet(picks[1].req.xri) # HeaderGet(picks[1].req.xff)
    /\ picks[1].req.RemoteAddr # HeaderGet(picks[1].req.xri)
    /\ picks[1].key = HeaderGet(picks[1].req.xff)
    /\ picks[1].backend \in BackendIds

\* C33: round_robin takes its index from the shared counter of all
\* requests: the backend a call gets is E[c mod n], c being the value of
\* TotalRequests when the call selects, and as every call adds one to the
\* counter before it selects, the i-th selection finds it at i or more.
C33_IndexIsTotalRequests ==
    \A i \in 1..Len(picks) :
        /\ picks[i].backend = FixedBackends[(picks[i].key % MaxBackends) + 1]
        /\ picks[i].key >= i
        /\ picks[i].key <= stats.TotalRequests

\* n calls were made over the n backends and no more: two of them loaded
\* the same counter value and got the same backend, and a backend got none
C33_Witness ==
    /\ stats.TotalRequests = MaxBackends
    /\ Len(picks) = MaxBackends
    /\ \E i, j \in 1..Len(picks) :
          /\ i # j
          /\ picks[i].key = picks[j].key
          /\ picks[i].backend = picks[j].backend
    /\ \E b \in BackendIds : \A i \in 1..Len(picks) : picks[i].backend # b

\* the requests routed to b while its breaker was Open, since the breaker
\* last changed state
AdmittedWhileOpen(b) == Cardinality({ i \in 1..Len(picks) : picks[i].backend = b })

\* C34: the requests admitted to a backend whose breaker is Open, once the
\* cool-down has elapsed and before the breaker changes state again, number
\* at most the half-open request allowance.
C34_BoundedProbing ==
    \A b \in BackendIds : AdmittedWhileOpen(b) <= config.halfOpenRequests

Goroutines ==
    { Caller(d) : d \in Dispatchers } \cup { Prober(p) : p \in Probers }
        \cup { Checker, Registrar, Reader }

\* the order of the locks: lb.mutex before a backend's mutex before that
\* backend's breaker's mutex, lb.mutex before the ring's mutex
LockBefore(h, l) ==
    \/ h = LbMutex /\ l \notin { LbMutex, StatsMutex }
    \/ \E b \in BackendIds : h = BackendMutex(b) /\ l = CbMutex(b)

Involved(mu, l) == mu[l].readers \cup mu[l].writer \cup mu[l].waiting

\* the goroutines that request or take lock l in a step
Requesting(l) ==
    IF mutex'[l] = mutex[l] THEN {} ELSE Involved(mutex', l) \ Involved(mutex, l)

\* the goroutines that have a step of their own to take next
AtWork ==
    { Caller(d) : d \in { x \in Dispatchers : disp[x].pc \notin { "idle", "proxy" } } }
        \cup { Prober(p) : p \in { x \in Probers :
                                      task.prober[x].pc \in { "lock", "locked", "record" } } }
        \cup (IF task.reg.pc # "idle" THEN { Registrar } ELSE {})

CanStep(t) ==
    \/ \E d \in Dispatchers : t = Caller(d) /\ ENABLED CallerSteps(d)
    \/ \E p \in Probers : t = Prober(p) /\ ENABLED ProberSteps(p)
    \/ t = Registrar /\ ENABLED RegistrarSteps

\* a set of goroutines each of which waits for a lock that another of the
\* set holds or is queued for
Deadlocked(S) == S # {} /\ \A t \in S : WaitsOn(t) \cap S # {}

InProgress == { d \in Dispatchers : disp[d].pc # "idle" }

RECURSIVE SumConnections(_)
SumConnections(S) ==
    IF S = {} THEN 0
    ELSE LET b == CHOOSE x \in S : TRUE IN
         backend[b].Connections + SumConnections(S \ { b })

\* C37: SuccessRequests + FailedRequests never exceeds TotalRequests;
\* ActiveConnections is the number of ServeHTTP calls in progress; the
\* backends' Connections add up to no more than ActiveConnections; and with
\* no call in progress every request counted has been counted as a success
\* or as a failure and ActiveConnections is 0.
C37_StatsAccounting ==
    /\ stats.SuccessRequests + stats.FailedRequests <= stats.TotalRequests
    /\ stats.ActiveConnections >= 0
    /\ stats.ActiveConnections = Cardinality(InProgress)
    /\ SumConnections(BackendIds) <= stats.ActiveConnections
    /\ InProgress = {} =>
          /\ stats.TotalRequests = stats.SuccessRequests + stats.FailedRequests
          /\ stats.ActiveConnections = 0

\* C38: after any ring AddBackend and RemoveBackend calls, under any hash of
\* the virtual-node keys, every hash of the ring's sequence has a map entry
\* and the entry is a backend that is on the ring; so a GetBackend call on
\* a ring that is not empty returns a backend that is on the ring.
C38_RingConsistent ==
    /\ \A i \in 1..Len(ring.sortedHashes) :
          ring.hashRing[ring.sortedHashes[i]] \in inRing
    /\ \A i \in 1..Len(picks) :
          Len(ring.sortedHashes) > 0 => picks[i].backend \in inRing

====
